---- MODULE Spec2Model ----
(***************************************************************************)
(* State-machine model of the Smart Shopping List program:                 *)
(*   shopping_list.py  Office, Store, SmartShoppingList                    *)
(*   cli.py            main_menu, add_office_interactive,                  *)
(*                     add_store_interactive, show_results                 *)
(*                                                                         *)
(* Python dicts are modelled as insertion-ordered sequences of key/value   *)
(* records with unique keys.  Objects live in two heaps (officeObjs,       *)
(* storeObjs) and are referred to by their index, so that one object can   *)
(* be registered several times and mutated after registration.  A float    *)
(* is an IEEE 754 binary64 value: a finite one with its exact significand  *)
(* and exponent, an infinity or NaN; arithmetic rounds as the machine      *)
(* does.  A line of text read by input() is the sequence of the code       *)
(* points of its characters, so that strip(), lower(), int() and float()   *)
(* act on it.  An int is below 2^31 in size, and a numeral of float() has  *)
(* at most some twenty digits and a power of ten of at most some twenty.   *)
(***************************************************************************)
EXTENDS Integers, Sequences, FiniteSets, TLC

VARIABLES officeObjs, storeObjs, offices, stores, ret, added, lastSet,
          pc, cur, curItem, line, msg, held, loads, typed

vars == <<officeObjs, storeObjs, offices, stores, ret, added, lastSet,
         pc, cur, curItem, line, msg, held, loads, typed>>

(***************************************************************************)
(* Bounds and input sets                                                   *)
(***************************************************************************)
\* largest absolute quantity an office may hold for one item
MaxQty == 2
\* largest length of the aggregator's offices list and of its stores list
MaxRefs == 2

Items == {"Pens", "Paper"}
OfficeNames == {"HQ"}
StoreNames == {"A", "B"}
\* the Office and Store objects a run may construct
OfficeIds == {1, 2}
StoreIds == {1, 2}

(***************************************************************************)
(* Natural numbers of any size                                             *)
(*                                                                         *)
(* A 53-bit significand does not fit a machine integer of the checker, so  *)
(* a natural number is held as its limbs in base 2^15, least significant   *)
(* first, with no zero limb at the top; zero is the empty tuple.           *)
(***************************************************************************)
LimbBits == 15
Base == 32768

\* 2^k for k < LimbBits
Pow2(k) ==
    <<1, 2, 4, 8, 16, 32, 64, 128, 256, 512, 1024, 2048, 4096, 8192, 16384>>[k + 1]

RECURSIVE BNorm(_)
BNorm(a) ==
    IF a # <<>> /\ a[Len(a)] = 0 THEN BNorm(SubSeq(a, 1, Len(a) - 1)) ELSE a

Limb(a, i) == IF i <= Len(a) THEN a[i] ELSE 0

\* the limbs of a non-negative machine integer
RECURSIVE Limbs(_)
Limbs(n) == IF n = 0 THEN <<>> ELSE <<n % Base>> \o Limbs(n \div Base)

RECURSIVE BAddFrom(_, _, _, _)
BAddFrom(a, b, i, carry) ==
    IF i > Len(a) /\ i > Len(b)
    THEN IF carry = 0 THEN <<>> ELSE <<carry>>
    ELSE LET s == Limb(a, i) + Limb(b, i) + carry
         IN  <<s % Base>> \o BAddFrom(a, b, i + 1, s \div Base)
BAdd(a, b) == BAddFrom(a, b, 1, 0)

\* a - b, for a >= b
RECURSIVE BSubFrom(_, _, _, _)
BSubFrom(a, b, i, borrow) ==
    IF i > Len(a) THEN <<>>
    ELSE LET d == a[i] - Limb(b, i) - borrow
         IN  IF d < 0 THEN <<d + Base>> \o BSubFrom(a, b, i + 1, 1)
             ELSE <<d>> \o BSubFrom(a, b, i + 1, 0)
BSub(a, b) == BNorm(BSubFrom(a, b, 1, 0))

\* a * k, for 0 <= k < Base
RECURSIVE BMulSmallFrom(_, _, _, _)
BMulSmallFrom(a, k, i, carry) ==
    IF i > Len(a)
    THEN IF carry = 0 THEN <<>> ELSE <<carry>>
    ELSE LET p == a[i] * k + carry
         IN  <<p % Base>> \o BMulSmallFrom(a, k, i + 1, p \div Base)
BMulSmall(a, k) == BNorm(BMulSmallFrom(a, k, 1, 0))

Zeros(n) == [i \in 1..n |-> 0]

RECURSIVE BMulFrom(_, _, _)
BMulFrom(a, b, j) ==
    IF j > Len(b) THEN <<>>
    ELSE BAdd(BNorm(Zeros(j - 1) \o BMulSmall(a, b[j])), BMulFrom(a, b, j + 1))
BMul(a, b) == BMulFrom(a, b, 1)

\* quotient and remainder of a by k, for 0 < k < Base
RECURSIVE BDivSmallFrom(_, _, _, _)
BDivSmallFrom(a, k, i, rem) ==
    IF i = 0 THEN [q |-> <<>>, r |-> rem]
    ELSE LET c == rem * Base + a[i]
             rest == BDivSmallFrom(a, k, i - 1, c % k)
         IN  [q |-> Append(rest.q, c \div k), r |-> rest.r]
BDivSmall(a, k) ==
    LET d == BDivSmallFrom(a, k, Len(a), 0)
    IN  [q |-> BNorm(d.q), r |-> d.r]

RECURSIVE BLtFrom(_, _, _)
BLtFrom(a, b, i) ==
    IF i = 0 THEN FALSE
    ELSE IF a[i] # b[i] THEN a[i] < b[i]
    ELSE BLtFrom(a, b, i - 1)
BLt(a, b) ==
    IF Len(a) # Len(b) THEN Len(a) < Len(b) ELSE BLtFrom(a, b, Len(a))

\* quotient and remainder of rem * 2^b + (the top b bits of limb) by d, for
\* rem < d
RECURSIVE BDivLimb(_, _, _, _)
BDivLimb(rem, limb, b, d) ==
    IF b = 0 THEN [q |-> 0, r |-> rem]
    ELSE LET prev == BDivLimb(rem, limb, b - 1, d)
             bit == (limb \div Pow2(LimbBits - b)) % 2
         IN  IF prev.r = <<>> /\ bit = 0 THEN [q |-> 2 * prev.q, r |-> <<>>]
             ELSE LET more == BAdd(BMulSmall(prev.r, 2), Limbs(bit))
                  IN  IF BLt(more, d) THEN [q |-> 2 * prev.q, r |-> more]
                      ELSE [q |-> 2 * prev.q + 1, r |-> BSub(more, d)]
\* quotient and remainder of the limbs of a from the i-th up, by d
RECURSIVE BDivFrom(_, _, _)
BDivFrom(a, d, i) ==
    IF i > Len(a) THEN [q |-> <<>>, r |-> <<>>]
    ELSE LET above == BDivFrom(a, d, i + 1)
         IN  IF above.r = <<>> /\ a[i] = 0
             THEN [q |-> <<0>> \o above.q, r |-> <<>>]
             ELSE LET here == BDivLimb(above.r, a[i], LimbBits, d)
                  IN  [q |-> <<here.q>> \o above.q, r |-> here.r]
\* quotient and remainder of a by d, for d # 0
BDiv(a, d) ==
    LET x == BDivFrom(a, d, 1)
    IN  [q |-> BNorm(x.q), r |-> x.r]

RECURSIVE BitsOf(_)
BitsOf(n) == IF n = 0 THEN 0 ELSE 1 + BitsOf(n \div 2)
BitLen(a) ==
    IF a = <<>> THEN 0 ELSE LimbBits * (Len(a) - 1) + BitsOf(a[Len(a)])

\* a * 2^k, and the whole part of a / 2^k
BShl(a, k) ==
    IF k = 0 \/ a = <<>> THEN a
    ELSE IF k % LimbBits = 0 THEN Zeros(k \div LimbBits) \o a
    ELSE BMulSmall(Zeros(k \div LimbBits) \o a, Pow2(k % LimbBits))
BShr(a, k) ==
    IF k = 0 THEN a
    ELSE IF k % LimbBits = 0 THEN SubSeq(a, k \div LimbBits + 1, Len(a))
    ELSE BDivSmall(SubSeq(a, k \div LimbBits + 1, Len(a)), Pow2(k % LimbBits)).q

IsOdd(a) == a # <<>> /\ a[1] % 2 = 1

\* the number of zero bits below the lowest one bit of a # 0
RECURSIVE ZeroBitsOf(_)
ZeroBitsOf(n) == IF n % 2 = 1 THEN 0 ELSE 1 + ZeroBitsOf(n \div 2)
RECURSIVE TrailingZeros(_)
TrailingZeros(a) ==
    IF a[1] = 0 THEN LimbBits + TrailingZeros(Tail(a)) ELSE ZeroBitsOf(a[1])

(***************************************************************************)
(* Floats (IEEE 754 binary64, round to nearest, ties to even)              *)
(*                                                                         *)
(* A finite float is (-1)^neg * m * 2^e with m odd, or m = 0; both zeros   *)
(* are held as one value: the program compares floats, and dividing by     *)
(* either zero raises the same error.                                      *)
(***************************************************************************)
Precision == 53
\* the exponent of the lowest bit a float can hold, and of the first power
\* of two that is too large to hold
MinExponent == -1074
MaxExponent == 1024

Inf == [kind |-> "inf", neg |-> FALSE, m |-> <<>>, e |-> 0]
NegInf == [kind |-> "inf", neg |-> TRUE, m |-> <<>>, e |-> 0]
NaN == [kind |-> "nan", neg |-> FALSE, m |-> <<>>, e |-> 0]
Zero == [kind |-> "fin", neg |-> FALSE, m |-> <<>>, e |-> 0]

IsNaN(a) == a.kind = "nan"
IsInf(a) == a.kind = "inf"
IsFinite(a) == a.kind = "fin"

\* the float m * 2^e, m being exact
Exact(neg, m, e) ==
    IF m = <<>> THEN Zero
    ELSE IF BitLen(m) + e > MaxExponent THEN (IF neg THEN NegInf ELSE Inf)
    ELSE LET z == TrailingZeros(m)
         IN  [kind |-> "fin", neg |-> neg, m |-> BShr(m, z), e |-> e + z]

\* the float nearest to (m + f) * 2^e, where 0 <= f < 1 and f > 0 exactly
\* when sticky; a sticky m has more than Precision bits
Round(neg, m, e, sticky) ==
    LET over == BitLen(m) - Precision
        under == MinExponent - e
        drop == IF over > under THEN over ELSE under
    IN  IF drop <= 0 THEN Exact(neg, m, e)
        ELSE LET limbs == drop \div LimbBits
                 bits == drop % LimbBits
                 \* the kept part; the dropped part is top * 2^(drop - n)
                 \* plus the limbs below, n being the bits top has
                 cut == IF bits = 0
                        THEN [q |-> SubSeq(m, limbs + 1, Len(m)),
                              r |-> Limb(m, limbs)]
                        ELSE BDivSmall(SubSeq(m, limbs + 1, Len(m)), Pow2(bits))
                 below == IF bits = 0 THEN limbs - 1 ELSE limbs
                 half == IF bits = 0 THEN Base \div 2 ELSE Pow2(bits - 1)
                 more == sticky \/ \E i \in 1..below : Limb(m, i) # 0
                 up == \/ cut.r > half
                       \/ cut.r = half /\ (more \/ IsOdd(cut.q))
             IN  Exact(neg, IF up THEN BAdd(cut.q, <<1>>) ELSE cut.q, e + drop)

\* float(n) of an int, which is below 2^31 in size
IntToFloat(n) == Exact(n < 0, Limbs(IF n < 0 THEN 0 - n ELSE n), 0)

\* the float nearest to n * 10^x, n a natural number
RECURSIVE TimesTen(_, _)
TimesTen(n, x) ==
    IF x = 0 THEN n
    ELSE LET prev == TimesTen(n, x - 1)
         IN  IF prev = <<>> THEN <<>> ELSE BMulSmall(prev, 10)
\* the whole part of n / 10^k, and whether a remainder was dropped
RECURSIVE OverTen(_, _)
OverTen(n, k) ==
    IF k = 0 THEN [q |-> n, sticky |-> FALSE]
    ELSE LET prev == OverTen(n, k - 1)
         IN  IF prev.q = <<>> THEN prev
             ELSE LET d == BDivSmall(prev.q, 10)
                  IN  [q |-> d.q, sticky |-> prev.sticky \/ d.r # 0]
Decimal(neg, n, x) ==
    IF n = <<>> THEN Zero
    ELSE IF x >= 0 THEN Round(neg, TimesTen(n, x), 0, FALSE)
    ELSE LET k == 0 - x
             s == LimbBits * ((4 * k + Precision + 1) \div LimbBits + 1)
             d == OverTen(BShl(n, s), k)
         IN  Round(neg, d.q, 0 - s, d.sticky)

\* the float literal of n hundredths: Fin(150) is 1.50, Fin(10) is 0.1
Fin(n) ==
    IF n % 100 = 0 THEN IntToFloat(n \div 100)
    ELSE Decimal(n < 0, Limbs(IF n < 0 THEN 0 - n ELSE n), -2)

FNeg(a) ==
    IF IsNaN(a) \/ a = Zero THEN a ELSE [a EXCEPT !.neg = ~a.neg]

\* |a| < |b| for finite a and b
MagLt(a, b) ==
    IF a.m = <<>> THEN b.m # <<>>
    ELSE IF b.m = <<>> THEN FALSE
    ELSE IF BitLen(a.m) + a.e # BitLen(b.m) + b.e
         THEN BitLen(a.m) + a.e < BitLen(b.m) + b.e
    ELSE LET low == IF a.e < b.e THEN a.e ELSE b.e
         IN  BLt(BShl(a.m, a.e - low), BShl(b.m, b.e - low))

\* a < b
FLt(a, b) ==
    IF IsNaN(a) \/ IsNaN(b) THEN FALSE
    ELSE IF a = b THEN FALSE
    ELSE IF IsInf(a) THEN a.neg
    ELSE IF IsInf(b) THEN ~b.neg
    ELSE IF a.neg # b.neg THEN a.neg
    ELSE IF a.neg THEN MagLt(b, a)
    ELSE MagLt(a, b)

\* a + b
FAdd(a, b) ==
    IF IsNaN(a) \/ IsNaN(b) THEN NaN
    ELSE IF IsInf(a) THEN (IF IsInf(b) /\ a.neg # b.neg THEN NaN ELSE a)
    ELSE IF IsInf(b) THEN b
    ELSE IF a.m = <<>> THEN b
    ELSE IF b.m = <<>> THEN a
    ELSE LET low == IF a.e < b.e THEN a.e ELSE b.e
             x == BShl(a.m, a.e - low)
             y == BShl(b.m, b.e - low)
         IN  IF a.neg = b.neg THEN Round(a.neg, BAdd(x, y), low, FALSE)
             ELSE IF BLt(x, y) THEN Round(b.neg, BSub(y, x), low, FALSE)
             ELSE Round(a.neg, BSub(x, y), low, FALSE)
\* a - b
FSub(a, b) == FAdd(a, FNeg(b))

\* a * b
FTimes(a, b) ==
    IF IsNaN(a) \/ IsNaN(b) THEN NaN
    ELSE IF IsInf(a) \/ IsInf(b)
         THEN IF a = Zero \/ b = Zero THEN NaN
              ELSE IF a.neg # b.neg THEN NegInf ELSE Inf
    ELSE Round(a.neg # b.neg, BMul(a.m, b.m), a.e + b.e, FALSE)
\* price * quantity of a float and an int
FMul(p, q) == FTimes(p, IntToFloat(q))

\* a / b: [ok |-> TRUE, val] or, for ZeroDivisionError, [ok |-> FALSE]
FDiv(a, b) ==
    IF b = Zero THEN [ok |-> FALSE, val |-> Zero]
    ELSE IF IsNaN(a) \/ IsNaN(b) THEN [ok |-> TRUE, val |-> NaN]
    ELSE IF IsInf(a)
         THEN [ok |-> TRUE,
               val |-> IF IsInf(b) THEN NaN
                       ELSE IF a.neg # b.neg THEN NegInf ELSE Inf]
    ELSE IF IsInf(b) \/ a = Zero THEN [ok |-> TRUE, val |-> Zero]
    ELSE LET s == Precision + 2 + BitLen(b.m) - BitLen(a.m)
             d == BDiv(BShl(a.m, s), b.m)
         IN  [ok |-> TRUE,
              val |-> Round(a.neg # b.neg, d.q, a.e - b.e - s, d.r # <<>>)]

(***************************************************************************)
(* dict                                                                    *)
(***************************************************************************)
EmptyDict == <<>>
DictKeys(d) == {d[i].k : i \in DOMAIN d}
DictHas(d, key) == \E i \in DOMAIN d : d[i].k = key
DictIndex(d, key) == CHOOSE i \in DOMAIN d : d[i].k = key
DictGet(d, key) == d[DictIndex(d, key)].v
\* d[key] = value: overwrite in place, or insert at the end
DictSet(d, key, value) ==
    IF DictHas(d, key)
    THEN [d EXCEPT ![DictIndex(d, key)] = [k |-> key, v |-> value]]
    ELSE Append(d, [k |-> key, v |-> value])
\* defaultdict(int).__getitem__: a missing key reads as int() = 0
DefaultGet(d, key) == IF DictHas(d, key) THEN DictGet(d, key) ELSE 0
IsDict(d) == \A i, j \in DOMAIN d : d[i].k = d[j].k => i = j
\* dict.__eq__: same keys, same values, any order
SameMapping(d, e) ==
    /\ DictKeys(d) = DictKeys(e)
    /\ \A key \in DictKeys(d) : DictGet(d, key) = DictGet(e, key)

(***************************************************************************)
(* Office                                                                  *)
(***************************************************************************)
Office(name) == [name |-> name, supplies |-> EmptyDict]

add_item(office, item, quantity) ==
    [office EXCEPT !.supplies = DictSet(@, item, DefaultGet(@, item) + quantity)]

get_supplies(office) == office.supplies

\* A dict object handed to a caller: a dict of its own holding val
\* (office = 0), or the supplies dict of the Office object numbered office
OwnDict(d) == [office |-> 0, val |-> d]
\* what a caller reads through such an object
Deref(objs, d) == IF d.office = 0 THEN d.val ELSE objs[d.office].supplies

\* return self.supplies in place of return dict(self.supplies)
returned_by_get_supplies_self(o, office) == [office |-> o, val |-> EmptyDict]
\* return dict(self.supplies): the object get_supplies returns, Office
\* object number o being self
returned_by_get_supplies(o, office) == OwnDict(get_supplies(office))

(***************************************************************************)
(* Store                                                                   *)
(***************************************************************************)
\* prices is only ever read by key (dict.get) and written by key, never
\* iterated, so it is held as a function from the items set so far to prices
NoPrices == [i \in {} |-> Inf]
MapSet(m, key, value) ==
    [i \in DOMAIN m \cup {key} |-> IF i = key THEN value ELSE m[i]]

Store(name) == [name |-> name, prices |-> NoPrices]

\* the first price set for an item is kept
set_price_keep_first(store, item, price) ==
    IF item \in DOMAIN store.prices THEN store
    ELSE [store EXCEPT !.prices = MapSet(@, item, price)]

set_price(store, item, price) ==
    [store EXCEPT !.prices = MapSet(@, item, price)]

get_price(store, item) ==
    IF item \in DOMAIN store.prices THEN store.prices[item] ELSE Inf

(***************************************************************************)
(* SmartShoppingList                                                       *)
(***************************************************************************)
add_office(list, office) == Append(list, office)
add_store(list, store) == Append(list, store)

\* merged[item] = quantity in place of merged[item] += quantity
RECURSIVE MergeItemsAssign(_, _, _)
MergeItemsAssign(supplies, j, merged) ==
    IF j > Len(supplies) THEN merged
    ELSE MergeItemsAssign(supplies, j + 1,
            DictSet(merged, supplies[j].k, supplies[j].v))

\* the inner loop of merge_supplies: for item, quantity in supplies.items()
RECURSIVE MergeItems(_, _, _)
MergeItems(supplies, j, merged) ==
    IF j > Len(supplies) THEN merged
    ELSE MergeItems(supplies, j + 1,
            DictSet(merged, supplies[j].k,
                    DefaultGet(merged, supplies[j].k) + supplies[j].v))

\* the outer loop of merge_supplies: for office in self.offices
RECURSIVE MergeOffices(_, _, _, _)
MergeOffices(objs, offs, i, merged) ==
    IF i > Len(offs) THEN merged
    ELSE MergeOffices(objs, offs, i + 1,
            MergeItems(get_supplies(objs[offs[i]]), 1, merged))

merge_supplies(objs, offs) == MergeOffices(objs, offs, 1, EmptyDict)
\* return dict(merged): the object merge_supplies returns
returned_by_merge_supplies(objs, offs) == OwnDict(merge_supplies(objs, offs))

\* total += price in place of total += price * quantity
RECURSIVE CalcLoopNoQuantity(_, _, _, _)
CalcLoopNoQuantity(store, shopping_list, j, acc) ==
    IF j > Len(shopping_list) THEN acc
    ELSE LET item == shopping_list[j].k
             price == get_price(store, item)
         IN  CalcLoopNoQuantity(store, shopping_list, j + 1,
                IF price = Inf
                THEN [acc EXCEPT !.unavailable = Append(@, item)]
                ELSE [acc EXCEPT !.total = FAdd(@, price)])

\* the loop of calculate_store_total; acc = [total, unavailable]
RECURSIVE CalcLoop(_, _, _, _)
CalcLoop(store, shopping_list, j, acc) ==
    IF j > Len(shopping_list) THEN acc
    ELSE LET item == shopping_list[j].k
             quantity == shopping_list[j].v
             price == get_price(store, item)
         IN  CalcLoop(store, shopping_list, j + 1,
                IF price = Inf
                THEN [acc EXCEPT !.unavailable = Append(@, item)]
                ELSE [acc EXCEPT !.total = FAdd(@, FMul(price, quantity))])

calculate_store_total(store, shopping_list) ==
    CalcLoop(store, shopping_list, 1, [total |-> Fin(0), unavailable |-> <<>>])

\* None, as a store reference
NoStore == 0

\* total <= cheapest_total in place of total < cheapest_total
RECURSIVE CheapestLoopLastTie(_, _, _, _, _)
CheapestLoopLastTie(sobjs, strs, merged_list, i, best) ==
    IF i > Len(strs) THEN best
    ELSE LET r == calculate_store_total(sobjs[strs[i]], merged_list)
         IN  CheapestLoopLastTie(sobjs, strs, merged_list, i + 1,
                IF r.unavailable = <<>> /\ ~FLt(best.total, r.total)
                THEN [store |-> strs[i], total |-> r.total]
                ELSE best)

\* the test "not unavailable" left out
RECURSIVE CheapestLoopIgnoreMissing(_, _, _, _, _)
CheapestLoopIgnoreMissing(sobjs, strs, merged_list, i, best) ==
    IF i > Len(strs) THEN best
    ELSE LET r == calculate_store_total(sobjs[strs[i]], merged_list)
         IN  CheapestLoopIgnoreMissing(sobjs, strs, merged_list, i + 1,
                IF FLt(r.total, best.total)
                THEN [store |-> strs[i], total |-> r.total]
                ELSE best)

\* the loop of find_cheapest_store; best = [store, total]
RECURSIVE CheapestLoop(_, _, _, _, _)
CheapestLoop(sobjs, strs, merged_list, i, best) ==
    IF i > Len(strs) THEN best
    ELSE LET r == calculate_store_total(sobjs[strs[i]], merged_list)
         IN  CheapestLoop(sobjs, strs, merged_list, i + 1,
                IF r.unavailable = <<>> /\ FLt(r.total, best.total)
                THEN [store |-> strs[i], total |-> r.total]
                ELSE best)

\* the two early returns left out
find_cheapest_store_no_early_return(objs, offs, sobjs, strs) ==
    LET merged_list == merge_supplies(objs, offs)
        best == CheapestLoop(sobjs, strs, merged_list, 1,
                             [store |-> NoStore, total |-> Inf])
    IN  [store |-> best.store, total |-> best.total, merged |-> merged_list]

find_cheapest_store(objs, offs, sobjs, strs) ==
    LET merged_list == merge_supplies(objs, offs)
    IN  IF merged_list = EmptyDict
        THEN [store |-> NoStore, total |-> Fin(0), merged |-> EmptyDict]
        ELSE IF strs = <<>>
        THEN [store |-> NoStore, total |-> Fin(0), merged |-> merged_list]
        ELSE LET best == CheapestLoop(sobjs, strs, merged_list, 1,
                                      [store |-> NoStore, total |-> Inf])
             IN  [store |-> best.store, total |-> best.total,
                  merged |-> merged_list]

\* comparison.setdefault(name, entry) in place of comparison[name] = entry
RECURSIVE ComparisonLoopKeepFirst(_, _, _, _, _)
ComparisonLoopKeepFirst(sobjs, strs, merged_list, i, comparison) ==
    IF i > Len(strs) THEN comparison
    ELSE LET r == calculate_store_total(sobjs[strs[i]], merged_list)
         IN  ComparisonLoopKeepFirst(sobjs, strs, merged_list, i + 1,
                IF DictHas(comparison, sobjs[strs[i]].name) THEN comparison
                ELSE DictSet(comparison, sobjs[strs[i]].name,
                    [total |-> IF r.unavailable = <<>> THEN r.total ELSE Inf,
                     unavailable_items |-> r.unavailable]))

\* 'total': total in place of 'total': total if not unavailable else inf
RECURSIVE ComparisonLoopPartialTotal(_, _, _, _, _)
ComparisonLoopPartialTotal(sobjs, strs, merged_list, i, comparison) ==
    IF i > Len(strs) THEN comparison
    ELSE LET r == calculate_store_total(sobjs[strs[i]], merged_list)
         IN  ComparisonLoopPartialTotal(sobjs, strs, merged_list, i + 1,
                DictSet(comparison, sobjs[strs[i]].name,
                    [total |-> r.total,
                     unavailable_items |-> r.unavailable]))

\* the loop of get_price_comparison
RECURSIVE ComparisonLoop(_, _, _, _, _)
ComparisonLoop(sobjs, strs, merged_list, i, comparison) ==
    IF i > Len(strs) THEN comparison
    ELSE LET r == calculate_store_total(sobjs[strs[i]], merged_list)
         IN  ComparisonLoop(sobjs, strs, merged_list, i + 1,
                DictSet(comparison, sobjs[strs[i]].name,
                    [total |-> IF r.unavailable = <<>> THEN r.total ELSE Inf,
                     unavailable_items |-> r.unavailable]))

get_price_comparison(objs, offs, sobjs, strs) ==
    ComparisonLoop(sobjs, strs, merge_supplies(objs, offs), 1, EmptyDict)

(***************************************************************************)
(* Initial state: SmartShoppingList() and no Office or Store object yet    *)
(***************************************************************************)
NoRet == [op |-> "none"]
\* the caller holds no mapping returned earlier
NoHeld == [op |-> "none"]

InitData ==
    /\ officeObjs = <<>>
    /\ storeObjs = <<>>
    /\ offices = <<>>
    /\ stores = <<>>
    /\ ret = NoRet
    /\ added = <<>>
    /\ lastSet = <<>>
    /\ cur = 0
    /\ curItem = <<>>
    /\ line = <<>>
    /\ msg = ""
    /\ held = NoHeld
    /\ loads = 0
    /\ typed = 0

Init == InitData /\ pc = "api"

cliVars == <<pc, cur, curItem, line, msg, loads, typed>>

(***************************************************************************)
(* Library calls made directly by a caller (pc = "api")                    *)
(***************************************************************************)
\* added[o]: the sum of the quantities passed to add_item on office o so far,
\* per item; lastSet[s]: the price last passed to set_price on store s, per item
Accumulate(f, item, quantity) ==
    [i \in DOMAIN f \cup {item} |->
        IF i = item THEN (IF item \in DOMAIN f THEN f[item] ELSE 0) + quantity
        ELSE f[i]]

\* office = Office(name)
NewOffice(ids, names) ==
    /\ pc = "api"
    /\ Len(officeObjs) + 1 \in ids
    /\ \E name \in names :
          officeObjs' = Append(officeObjs, Office(name))
    /\ added' = Append(added, <<>>)
    /\ ret' = NoRet
    /\ UNCHANGED <<storeObjs, offices, stores, lastSet, cliVars, held>>

\* office.add_item(item, quantity)
AddItem(quantities) ==
    /\ pc = "api"
    /\ \E o \in DOMAIN officeObjs, item \in Items, quantity \in quantities :
          LET new == add_item(officeObjs[o], item, quantity)
          IN  /\ DictGet(new.supplies, item) \in (0 - MaxQty)..MaxQty
              /\ officeObjs' = [officeObjs EXCEPT ![o] = new]
              /\ added' = [added EXCEPT ![o] = Accumulate(@, item, quantity)]
    /\ ret' = NoRet
    /\ UNCHANGED <<storeObjs, offices, stores, lastSet, cliVars, held>>

\* smart_list.add_office(office)
AddOffice ==
    /\ pc = "api"
    /\ Len(offices) < MaxRefs
    /\ \E o \in DOMAIN officeObjs : offices' = add_office(offices, o)
    /\ ret' = NoRet
    /\ UNCHANGED <<officeObjs, storeObjs, stores, added, lastSet, cliVars, held>>

\* store = Store(name)
NewStore(ids, names) ==
    /\ pc = "api"
    /\ Len(storeObjs) + 1 \in ids
    /\ \E name \in names : storeObjs' = Append(storeObjs, Store(name))
    /\ lastSet' = Append(lastSet, <<>>)
    /\ ret' = NoRet
    /\ UNCHANGED <<officeObjs, offices, stores, added, cliVars, held>>

\* store.set_price(item, price)
SetPrice(prices) ==
    /\ pc = "api"
    /\ \E s \in DOMAIN storeObjs, item \in Items, price \in prices :
          /\ storeObjs' = [storeObjs EXCEPT ![s] = set_price(@, item, price)]
          /\ lastSet' = [lastSet EXCEPT ![s] = MapSet(@, item, price)]
    /\ ret' = NoRet
    /\ UNCHANGED <<officeObjs, offices, stores, added, cliVars, held>>

\* smart_list.add_store(store)
AddStore ==
    /\ pc = "api"
    /\ Len(stores) < MaxRefs
    /\ \E s \in DOMAIN storeObjs : stores' = add_store(stores, s)
    /\ ret' = NoRet
    /\ UNCHANGED <<officeObjs, storeObjs, offices, added, lastSet, cliVars, held>>

data == <<officeObjs, storeObjs, offices, stores, added, lastSet>>

\* office.get_supplies()
GetSupplies ==
    /\ pc = "api"
    /\ \E o \in DOMAIN officeObjs :
          ret' = [op |-> "get_supplies", office |-> o,
                  val |-> get_supplies(officeObjs[o])]
    /\ UNCHANGED <<data, cliVars, held>>

\* store.get_price(item)
GetPrice ==
    /\ pc = "api"
    /\ \E s \in DOMAIN storeObjs, item \in Items :
          ret' = [op |-> "get_price", store |-> s, item |-> item,
                  val |-> get_price(storeObjs[s], item)]
    /\ UNCHANGED <<data, cliVars, held>>

\* smart_list.merge_supplies()
MergeSupplies ==
    /\ pc = "api"
    /\ ret' = [op |-> "merge_supplies",
               val |-> merge_supplies(officeObjs, offices)]
    /\ UNCHANGED <<data, cliVars, held>>

\* smart_list.calculate_store_total(store, shopping_list)
CalculateStoreTotal(demands) ==
    /\ pc = "api"
    /\ \E s \in DOMAIN storeObjs, shopping_list \in demands :
          ret' = LET r == calculate_store_total(storeObjs[s], shopping_list)
                 IN  [op |-> "calculate_store_total", store |-> s,
                      shopping_list |-> shopping_list,
                      total |-> r.total, unavailable |-> r.unavailable]
    /\ UNCHANGED <<data, cliVars, held>>

\* smart_list.find_cheapest_store()
FindCheapestStore ==
    /\ pc = "api"
    /\ ret' = LET r == find_cheapest_store(officeObjs, offices, storeObjs, stores)
              IN  [op |-> "find_cheapest_store", store |-> r.store,
                   total |-> r.total, merged |-> r.merged]
    /\ UNCHANGED <<data, cliVars, held>>

\* smart_list.get_price_comparison()
GetPriceComparison ==
    /\ pc = "api"
    /\ ret' = [op |-> "get_price_comparison",
               val |-> get_price_comparison(officeObjs, offices, storeObjs, stores)]
    /\ UNCHANGED <<data, cliVars, held>>

\* snapshot = office.get_supplies(), kept by the caller
HoldSupplies ==
    /\ pc = "api"
    /\ \E o \in DOMAIN officeObjs :
          LET d == returned_by_get_supplies(o, officeObjs[o])
          IN  /\ ret' = [op |-> "get_supplies", office |-> o,
                         val |-> Deref(officeObjs, d)]
              /\ held' = [op |-> "get_supplies", office |-> o, obj |-> d,
                          seen |-> Deref(officeObjs, d)]
    /\ UNCHANGED <<data, cliVars>>

\* snapshot = smart_list.merge_supplies(), kept by the caller
HoldMerged ==
    /\ pc = "api"
    /\ LET d == returned_by_merge_supplies(officeObjs, offices)
       IN  /\ ret' = [op |-> "merge_supplies", val |-> Deref(officeObjs, d)]
           /\ held' = [op |-> "merge_supplies", office |-> 0, obj |-> d,
                       seen |-> Deref(officeObjs, d)]
    /\ UNCHANGED <<data, cliVars>>

(***************************************************************************)
(* Specifications                                                          *)
(***************************************************************************)
Quantities == {-1, 1, 2}
PriceValues == {Fin(100), Fin(200), Inf}

\* every dict over Items with quantities 0..2, in either key order
RECURSIVE DictsOver(_)
DictsOver(keys) ==
    IF keys = {} THEN {EmptyDict}
    ELSE UNION {{Append(d, [k |-> key, v |-> q]) :
                    d \in DictsOver(keys \ {key}), q \in 0..MaxQty} : key \in keys}
DemandInputs == UNION {DictsOver(ks) : ks \in SUBSET Items}

\* offices only: Office.add_item, add_office, get_supplies, merge_supplies
NextOffice ==
    \/ NewOffice(OfficeIds, OfficeNames)
    \/ AddItem(Quantities)
    \/ AddOffice
    \/ GetSupplies
    \/ MergeSupplies
SpecOffice == Init /\ [][NextOffice]_vars

\* one store against any demand mapping: set_price, get_price,
\* calculate_store_total
NextStore ==
    \/ NewStore(StoreIds, StoreNames)
    \/ SetPrice(PriceValues)
    \/ GetPrice
    \/ CalculateStoreTotal(DemandInputs)
SpecStore == Init /\ [][NextStore]_vars

\* the aggregator with one office and two stores: find_cheapest_store
Next ==
    \/ NewOffice({1}, OfficeNames)
    \/ AddItem({1, 2})
    \/ AddOffice
    \/ NewStore(StoreIds, {"A"})
    \/ SetPrice(PriceValues)
    \/ AddStore
    \/ FindCheapestStore
Spec == Init /\ [][Next]_vars

\* the aggregator with one office and two named stores: get_price_comparison
NextCompare ==
    \/ NewOffice({1}, OfficeNames)
    \/ AddItem({1, 2})
    \/ AddOffice
    \/ NewStore(StoreIds, StoreNames)
    \/ SetPrice({Fin(100), Inf})
    \/ AddStore
    \/ GetPriceComparison
SpecCompare == Init /\ [][NextCompare]_vars

\* the aggregator with one office and two named stores, finite prices only:
\* find_cheapest_store and get_price_comparison on the same state
NextAgree ==
    \/ NewOffice({1}, OfficeNames)
    \/ AddItem({1, 2})
    \/ AddOffice
    \/ NewStore(StoreIds, StoreNames)
    \/ SetPrice({Fin(100), Fin(200)})
    \/ AddStore
    \/ FindCheapestStore
    \/ GetPriceComparison
SpecAgree == Init /\ [][NextAgree]_vars

\* every query beside the mutators, the caller keeping the mappings that
\* get_supplies and merge_supplies return: one office, one store
FrameDemands == {<<[k |-> "Pens", v |-> 1]>>,
                 <<[k |-> "Paper", v |-> 2], [k |-> "Pens", v |-> 1]>>}
NextFrame ==
    \/ NewOffice({1}, OfficeNames)
    \/ AddItem({1, 2})
    \/ AddOffice
    \/ NewStore({1}, {"A"})
    \/ SetPrice({Fin(100)})
    \/ AddStore
    \/ HoldSupplies
    \/ HoldMerged
    \/ GetPrice
    \/ CalculateStoreTotal(FrameDemands)
    \/ FindCheapestStore
    \/ GetPriceComparison
SpecFrame == Init /\ [][NextFrame]_vars

(***************************************************************************)
(* Text read from the terminal.  A str the code looks inside (strip,       *)
(* lower, int, float) is the sequence of the code points of its            *)
(* characters: 'HQ' is <<72, 81>>.  The tables are those of the Unicode    *)
(* database of the interpreter (14.0.0).                                   *)
(***************************************************************************)
\* the printable ASCII characters, chr(32) to chr(126), but for chr(96), the
\* grave accent, whose place is left empty
Ascii == <<
    " ", "!", "\"", "#", "$", "%", "&", "'", "(", ")", "*", "+", ",", "-",
    ".", "/", "0", "1", "2", "3", "4", "5", "6", "7", "8", "9", ":", ";",
    "<", "=", ">", "?", "@", "A", "B", "C", "D", "E", "F", "G", "H", "I",
    "J", "K", "L", "M", "N", "O", "P", "Q", "R", "S", "T", "U", "V", "W",
    "X", "Y", "Z", "[", "\\", "]", "^", "_", "", "a", "b", "c", "d", "e",
    "f", "g", "h", "i", "j", "k", "l", "m", "n", "o", "p", "q", "r", "s",
    "t", "u", "v", "w", "x", "y", "z", "{", "|", "}", "~">>
\* ord(c) of one of these characters
ord(c) == 31 + CHOOSE i \in DOMAIN Ascii : Ascii[i] = c
\* the str written with printable ASCII characters
RECURSIVE Text(_)
Text(chars) ==
    IF chars = <<>> THEN <<>> ELSE <<ord(Head(chars))>> \o Text(Tail(chars))

\* the signs and marks of a numeral
Mark == [c \in {"+", "-", "_", ".", "e", "E"} |-> ord(c)]

\* the characters str.isspace() holds of: \t, \n, \v, \f, \r, the separators
\* \x1c..\x1f, the space, \x85, \xa0 and the spaces of Unicode
Whitespace == {
    9, 10, 11, 12, 13, 28, 29, 30, 31, 32, 133, 160, 5760, 8192, 8193, 8194,
    8195, 8196, 8197, 8198, 8199, 8200, 8201, 8202, 8232, 8233, 8239, 8287,
    12288}
\* the characters int() and float() skip around a numeral: the whitespace
\* but for the separators \x1c..\x1f
NumeralSpace == Whitespace \ {28, 29, 30, 31}

RECURSIVE LeftStripped(_, _)
LeftStripped(text, chars) ==
    IF text # <<>> /\ Head(text) \in chars
    THEN LeftStripped(Tail(text), chars) ELSE text
RECURSIVE RightStripped(_, _)
RightStripped(text, chars) ==
    IF text # <<>> /\ text[Len(text)] \in chars
    THEN RightStripped(SubSeq(text, 1, Len(text) - 1), chars) ELSE text
\* str.strip()
strip(text) == RightStripped(LeftStripped(text, Whitespace), Whitespace)
\* the numeral int() or float() reads in text
Numeral(text) == RightStripped(LeftStripped(text, NumeralSpace), NumeralSpace)

\* the characters beyond ASCII that str.lower() changes into one other
\* character, in runs <<first, last, step, distance>>: every step-th character
\* from first to last lowers to the character distance further on
LowerRuns == <<
    <<192, 214, 1, 32>>, <<216, 222, 1, 32>>, <<256, 302, 2, 1>>,
    <<306, 310, 2, 1>>, <<313, 327, 2, 1>>, <<330, 374, 2, 1>>,
    <<376, 376, 1, -121>>, <<377, 381, 2, 1>>, <<385, 385, 1, 210>>,
    <<386, 388, 2, 1>>, <<390, 390, 1, 206>>, <<391, 391, 1, 1>>,
    <<393, 394, 1, 205>>, <<395, 395, 1, 1>>, <<398, 398, 1, 79>>,
    <<399, 399, 1, 202>>, <<400, 400, 1, 203>>, <<401, 401, 1, 1>>,
    <<403, 403, 1, 205>>, <<404, 404, 1, 207>>, <<406, 406, 1, 211>>,
    <<407, 407, 1, 209>>, <<408, 408, 1, 1>>, <<412, 412, 1, 211>>,
    <<413, 413, 1, 213>>, <<415, 415, 1, 214>>, <<416, 420, 2, 1>>,
    <<422, 422, 1, 218>>, <<423, 423, 1, 1>>, <<425, 425, 1, 218>>,
    <<428, 428, 1, 1>>, <<430, 430, 1, 218>>, <<431, 431, 1, 1>>,
    <<433, 434, 1, 217>>, <<435, 437, 2, 1>>, <<439, 439, 1, 219>>,
    <<440, 440, 1, 1>>, <<444, 444, 1, 1>>, <<452, 452, 1, 2>>,
    <<453, 453, 1, 1>>, <<455, 455, 1, 2>>, <<456, 456, 1, 1>>,
    <<458, 458, 1, 2>>, <<459, 475, 2, 1>>, <<478, 494, 2, 1>>,
    <<497, 497, 1, 2>>, <<498, 500, 2, 1>>, <<502, 502, 1, -97>>,
    <<503, 503, 1, -56>>, <<504, 542, 2, 1>>, <<544, 544, 1, -130>>,
    <<546, 562, 2, 1>>, <<570, 570, 1, 10795>>, <<571, 571, 1, 1>>,
    <<573, 573, 1, -163>>, <<574, 574, 1, 10792>>, <<577, 577, 1, 1>>,
    <<579, 579, 1, -195>>, <<580, 580, 1, 69>>, <<581, 581, 1, 71>>,
    <<582, 590, 2, 1>>, <<880, 882, 2, 1>>, <<886, 886, 1, 1>>,
    <<895, 895, 1, 116>>, <<902, 902, 1, 38>>, <<904, 906, 1, 37>>,
    <<908, 908, 1, 64>>, <<910, 911, 1, 63>>, <<913, 929, 1, 32>>,
    <<931, 939, 1, 32>>, <<975, 975, 1, 8>>, <<984, 1006, 2, 1>>,
    <<1012, 1012, 1, -60>>, <<1015, 1015, 1, 1>>, <<1017, 1017, 1, -7>>,
    <<1018, 1018, 1, 1>>, <<1021, 1023, 1, -130>>, <<1024, 1039, 1, 80>>,
    <<1040, 1071, 1, 32>>, <<1120, 1152, 2, 1>>, <<1162, 1214, 2, 1>>,
    <<1216, 1216, 1, 15>>, <<1217, 1229, 2, 1>>, <<1232, 1326, 2, 1>>,
    <<1329, 1366, 1, 48>>, <<4256, 4293, 1, 7264>>, <<4295, 4295, 1, 7264>>,
    <<4301, 4301, 1, 7264>>, <<5024, 5103, 1, 38864>>, <<5104, 5109, 1, 8>>,
    <<7312, 7354, 1, -3008>>, <<7357, 7359, 1, -3008>>,
    <<7680, 7828, 2, 1>>, <<7838, 7838, 1, -7615>>, <<7840, 7934, 2, 1>>,
    <<7944, 7951, 1, -8>>, <<7960, 7965, 1, -8>>, <<7976, 7983, 1, -8>>,
    <<7992, 7999, 1, -8>>, <<8008, 8013, 1, -8>>, <<8025, 8031, 2, -8>>,
    <<8040, 8047, 1, -8>>, <<8072, 8079, 1, -8>>, <<8088, 8095, 1, -8>>,
    <<8104, 8111, 1, -8>>, <<8120, 8121, 1, -8>>, <<8122, 8123, 1, -74>>,
    <<8124, 8124, 1, -9>>, <<8136, 8139, 1, -86>>, <<8140, 8140, 1, -9>>,
    <<8152, 8153, 1, -8>>, <<8154, 8155, 1, -100>>, <<8168, 8169, 1, -8>>,
    <<8170, 8171, 1, -112>>, <<8172, 8172, 1, -7>>, <<8184, 8185, 1, -128>>,
    <<8186, 8187, 1, -126>>, <<8188, 8188, 1, -9>>,
    <<8486, 8486, 1, -7517>>, <<8490, 8490, 1, -8383>>,
    <<8491, 8491, 1, -8262>>, <<8498, 8498, 1, 28>>, <<8544, 8559, 1, 16>>,
    <<8579, 8579, 1, 1>>, <<9398, 9423, 1, 26>>, <<11264, 11311, 1, 48>>,
    <<11360, 11360, 1, 1>>, <<11362, 11362, 1, -10743>>,
    <<11363, 11363, 1, -3814>>, <<11364, 11364, 1, -10727>>,
    <<11367, 11371, 2, 1>>, <<11373, 11373, 1, -10780>>,
    <<11374, 11374, 1, -10749>>, <<11375, 11375, 1, -10783>>,
    <<11376, 11376, 1, -10782>>, <<11378, 11378, 1, 1>>,
    <<11381, 11381, 1, 1>>, <<11390, 11391, 1, -10815>>,
    <<11392, 11490, 2, 1>>, <<11499, 11501, 2, 1>>, <<11506, 11506, 1, 1>>,
    <<42560, 42604, 2, 1>>, <<42624, 42650, 2, 1>>, <<42786, 42798, 2, 1>>,
    <<42802, 42862, 2, 1>>, <<42873, 42875, 2, 1>>,
    <<42877, 42877, 1, -35332>>, <<42878, 42886, 2, 1>>,
    <<42891, 42891, 1, 1>>, <<42893, 42893, 1, -42280>>,
    <<42896, 42898, 2, 1>>, <<42902, 42920, 2, 1>>,
    <<42922, 42922, 1, -42308>>, <<42923, 42923, 1, -42319>>,
    <<42924, 42924, 1, -42315>>, <<42925, 42925, 1, -42305>>,
    <<42926, 42926, 1, -42308>>, <<42928, 42928, 1, -42258>>,
    <<42929, 42929, 1, -42282>>, <<42930, 42930, 1, -42261>>,
    <<42931, 42931, 1, 928>>, <<42932, 42946, 2, 1>>,
    <<42948, 42948, 1, -48>>, <<42949, 42949, 1, -42307>>,
    <<42950, 42950, 1, -35384>>, <<42951, 42953, 2, 1>>,
    <<42960, 42960, 1, 1>>, <<42966, 42968, 2, 1>>, <<42997, 42997, 1, 1>>,
    <<65313, 65338, 1, 32>>, <<66560, 66599, 1, 40>>,
    <<66736, 66771, 1, 40>>, <<66928, 66964, 2, 39>>,
    <<66929, 66937, 2, 39>>, <<66941, 66953, 2, 39>>,
    <<66957, 66961, 2, 39>>, <<66965, 66965, 1, 39>>,
    <<68736, 68786, 1, 64>>, <<71840, 71871, 1, 32>>,
    <<93760, 93791, 1, 32>>, <<125184, 125217, 1, 34>>>>
\* the character a character lowers to, alone
LowerChar(c) ==
    IF c < 128 THEN (IF 65 <= c /\ c <= 90 THEN c + 32 ELSE c)
    ELSE LET hits == {i \in DOMAIN LowerRuns :
                        /\ LowerRuns[i][1] <= c /\ c <= LowerRuns[i][2]
                        /\ (c - LowerRuns[i][1]) % LowerRuns[i][3] = 0}
         IN  IF hits = {} THEN c ELSE c + LowerRuns[CHOOSE i \in hits : TRUE][4]

\* the characters with the property Cased, and those with Case_Ignorable
CasedRanges == <<
    <<65, 90>>, <<97, 122>>, <<170, 170>>, <<181, 181>>, <<186, 186>>,
    <<192, 214>>, <<216, 246>>, <<248, 442>>, <<444, 447>>, <<452, 659>>,
    <<661, 696>>, <<704, 705>>, <<736, 740>>, <<837, 837>>, <<880, 883>>,
    <<886, 887>>, <<890, 893>>, <<895, 895>>, <<902, 902>>, <<904, 906>>,
    <<908, 908>>, <<910, 929>>, <<931, 1013>>, <<1015, 1153>>,
    <<1162, 1327>>, <<1329, 1366>>, <<1376, 1416>>, <<4256, 4293>>,
    <<4295, 4295>>, <<4301, 4301>>, <<4304, 4346>>, <<4349, 4351>>,
    <<5024, 5109>>, <<5112, 5117>>, <<7296, 7304>>, <<7312, 7354>>,
    <<7357, 7359>>, <<7424, 7615>>, <<7680, 7957>>, <<7960, 7965>>,
    <<7968, 8005>>, <<8008, 8013>>, <<8016, 8023>>, <<8025, 8025>>,
    <<8027, 8027>>, <<8029, 8029>>, <<8031, 8061>>, <<8064, 8116>>,
    <<8118, 8124>>, <<8126, 8126>>, <<8130, 8132>>, <<8134, 8140>>,
    <<8144, 8147>>, <<8150, 8155>>, <<8160, 8172>>, <<8178, 8180>>,
    <<8182, 8188>>, <<8305, 8305>>, <<8319, 8319>>, <<8336, 8348>>,
    <<8450, 8450>>, <<8455, 8455>>, <<8458, 8467>>, <<8469, 8469>>,
    <<8473, 8477>>, <<8484, 8484>>, <<8486, 8486>>, <<8488, 8488>>,
    <<8490, 8493>>, <<8495, 8500>>, <<8505, 8505>>, <<8508, 8511>>,
    <<8517, 8521>>, <<8526, 8526>>, <<8544, 8575>>, <<8579, 8580>>,
    <<9398, 9449>>, <<11264, 11492>>, <<11499, 11502>>, <<11506, 11507>>,
    <<11520, 11557>>, <<11559, 11559>>, <<11565, 11565>>, <<42560, 42605>>,
    <<42624, 42653>>, <<42786, 42887>>, <<42891, 42894>>, <<42896, 42954>>,
    <<42960, 42961>>, <<42963, 42963>>, <<42965, 42969>>, <<42997, 42998>>,
    <<43000, 43002>>, <<43824, 43866>>, <<43868, 43880>>, <<43888, 43967>>,
    <<64256, 64262>>, <<64275, 64279>>, <<65313, 65338>>, <<65345, 65370>>,
    <<66560, 66639>>, <<66736, 66771>>, <<66776, 66811>>, <<66928, 66938>>,
    <<66940, 66954>>, <<66956, 66962>>, <<66964, 66965>>, <<66967, 66977>>,
    <<66979, 66993>>, <<66995, 67001>>, <<67003, 67004>>, <<67456, 67456>>,
    <<67459, 67461>>, <<67463, 67504>>, <<67506, 67514>>, <<68736, 68786>>,
    <<68800, 68850>>, <<71840, 71903>>, <<93760, 93823>>,
    <<119808, 119892>>, <<119894, 119964>>, <<119966, 119967>>,
    <<119970, 119970>>, <<119973, 119974>>, <<119977, 119980>>,
    <<119982, 119993>>, <<119995, 119995>>, <<119997, 120003>>,
    <<120005, 120069>>, <<120071, 120074>>, <<120077, 120084>>,
    <<120086, 120092>>, <<120094, 120121>>, <<120123, 120126>>,
    <<120128, 120132>>, <<120134, 120134>>, <<120138, 120144>>,
    <<120146, 120485>>, <<120488, 120512>>, <<120514, 120538>>,
    <<120540, 120570>>, <<120572, 120596>>, <<120598, 120628>>,
    <<120630, 120654>>, <<120656, 120686>>, <<120688, 120712>>,
    <<120714, 120744>>, <<120746, 120770>>, <<120772, 120779>>,
    <<122624, 122633>>, <<122635, 122654>>, <<125184, 125251>>,
    <<127280, 127305>>, <<127312, 127337>>, <<127344, 127369>>>>
CaseIgnorableRanges == <<
    <<39, 39>>, <<46, 46>>, <<58, 58>>, <<94, 94>>, <<96, 96>>,
    <<168, 168>>, <<173, 173>>, <<175, 175>>, <<180, 180>>, <<183, 184>>,
    <<688, 879>>, <<884, 885>>, <<890, 890>>, <<900, 901>>, <<903, 903>>,
    <<1155, 1161>>, <<1369, 1369>>, <<1375, 1375>>, <<1425, 1469>>,
    <<1471, 1471>>, <<1473, 1474>>, <<1476, 1477>>, <<1479, 1479>>,
    <<1524, 1524>>, <<1536, 1541>>, <<1552, 1562>>, <<1564, 1564>>,
    <<1600, 1600>>, <<1611, 1631>>, <<1648, 1648>>, <<1750, 1757>>,
    <<1759, 1768>>, <<1770, 1773>>, <<1807, 1807>>, <<1809, 1809>>,
    <<1840, 1866>>, <<1958, 1968>>, <<2027, 2037>>, <<2042, 2042>>,
    <<2045, 2045>>, <<2070, 2093>>, <<2137, 2139>>, <<2184, 2184>>,
    <<2192, 2193>>, <<2200, 2207>>, <<2249, 2306>>, <<2362, 2362>>,
    <<2364, 2364>>, <<2369, 2376>>, <<2381, 2381>>, <<2385, 2391>>,
    <<2402, 2403>>, <<2417, 2417>>, <<2433, 2433>>, <<2492, 2492>>,
    <<2497, 2500>>, <<2509, 2509>>, <<2530, 2531>>, <<2558, 2558>>,
    <<2561, 2562>>, <<2620, 2620>>, <<2625, 2626>>, <<2631, 2632>>,
    <<2635, 2637>>, <<2641, 2641>>, <<2672, 2673>>, <<2677, 2677>>,
    <<2689, 2690>>, <<2748, 2748>>, <<2753, 2757>>, <<2759, 2760>>,
    <<2765, 2765>>, <<2786, 2787>>, <<2810, 2815>>, <<2817, 2817>>,
    <<2876, 2876>>, <<2879, 2879>>, <<2881, 2884>>, <<2893, 2893>>,
    <<2901, 2902>>, <<2914, 2915>>, <<2946, 2946>>, <<3008, 3008>>,
    <<3021, 3021>>, <<3072, 3072>>, <<3076, 3076>>, <<3132, 3132>>,
    <<3134, 3136>>, <<3142, 3144>>, <<3146, 3149>>, <<3157, 3158>>,
    <<3170, 3171>>, <<3201, 3201>>, <<3260, 3260>>, <<3263, 3263>>,
    <<3270, 3270>>, <<3276, 3277>>, <<3298, 3299>>, <<3328, 3329>>,
    <<3387, 3388>>, <<3393, 3396>>, <<3405, 3405>>, <<3426, 3427>>,
    <<3457, 3457>>, <<3530, 3530>>, <<3538, 3540>>, <<3542, 3542>>,
    <<3633, 3633>>, <<3636, 3642>>, <<3654, 3662>>, <<3761, 3761>>,
    <<3764, 3772>>, <<3782, 3782>>, <<3784, 3789>>, <<3864, 3865>>,
    <<3893, 3893>>, <<3895, 3895>>, <<3897, 3897>>, <<3953, 3966>>,
    <<3968, 3972>>, <<3974, 3975>>, <<3981, 3991>>, <<3993, 4028>>,
    <<4038, 4038>>, <<4141, 4144>>, <<4146, 4151>>, <<4153, 4154>>,
    <<4157, 4158>>, <<4184, 4185>>, <<4190, 4192>>, <<4209, 4212>>,
    <<4226, 4226>>, <<4229, 4230>>, <<4237, 4237>>, <<4253, 4253>>,
    <<4348, 4348>>, <<4957, 4959>>, <<5906, 5908>>, <<5938, 5939>>,
    <<5970, 5971>>, <<6002, 6003>>, <<6068, 6069>>, <<6071, 6077>>,
    <<6086, 6086>>, <<6089, 6099>>, <<6103, 6103>>, <<6109, 6109>>,
    <<6155, 6159>>, <<6211, 6211>>, <<6277, 6278>>, <<6313, 6313>>,
    <<6432, 6434>>, <<6439, 6440>>, <<6450, 6450>>, <<6457, 6459>>,
    <<6679, 6680>>, <<6683, 6683>>, <<6742, 6742>>, <<6744, 6750>>,
    <<6752, 6752>>, <<6754, 6754>>, <<6757, 6764>>, <<6771, 6780>>,
    <<6783, 6783>>, <<6823, 6823>>, <<6832, 6862>>, <<6912, 6915>>,
    <<6964, 6964>>, <<6966, 6970>>, <<6972, 6972>>, <<6978, 6978>>,
    <<7019, 7027>>, <<7040, 7041>>, <<7074, 7077>>, <<7080, 7081>>,
    <<7083, 7085>>, <<7142, 7142>>, <<7144, 7145>>, <<7149, 7149>>,
    <<7151, 7153>>, <<7212, 7219>>, <<7222, 7223>>, <<7288, 7293>>,
    <<7376, 7378>>, <<7380, 7392>>, <<7394, 7400>>, <<7405, 7405>>,
    <<7412, 7412>>, <<7416, 7417>>, <<7468, 7530>>, <<7544, 7544>>,
    <<7579, 7679>>, <<8125, 8125>>, <<8127, 8129>>, <<8141, 8143>>,
    <<8157, 8159>>, <<8173, 8175>>, <<8189, 8190>>, <<8203, 8207>>,
    <<8216, 8217>>, <<8228, 8228>>, <<8231, 8231>>, <<8234, 8238>>,
    <<8288, 8292>>, <<8294, 8303>>, <<8305, 8305>>, <<8319, 8319>>,
    <<8336, 8348>>, <<8400, 8432>>, <<11388, 11389>>, <<11503, 11505>>,
    <<11631, 11631>>, <<11647, 11647>>, <<11744, 11775>>, <<11823, 11823>>,
    <<12293, 12293>>, <<12330, 12333>>, <<12337, 12341>>, <<12347, 12347>>,
    <<12441, 12446>>, <<12540, 12542>>, <<40981, 40981>>, <<42232, 42237>>,
    <<42508, 42508>>, <<42607, 42610>>, <<42612, 42621>>, <<42623, 42623>>,
    <<42652, 42655>>, <<42736, 42737>>, <<42752, 42785>>, <<42864, 42864>>,
    <<42888, 42890>>, <<42994, 42996>>, <<43000, 43001>>, <<43010, 43010>>,
    <<43014, 43014>>, <<43019, 43019>>, <<43045, 43046>>, <<43052, 43052>>,
    <<43204, 43205>>, <<43232, 43249>>, <<43263, 43263>>, <<43302, 43309>>,
    <<43335, 43345>>, <<43392, 43394>>, <<43443, 43443>>, <<43446, 43449>>,
    <<43452, 43453>>, <<43471, 43471>>, <<43493, 43494>>, <<43561, 43566>>,
    <<43569, 43570>>, <<43573, 43574>>, <<43587, 43587>>, <<43596, 43596>>,
    <<43632, 43632>>, <<43644, 43644>>, <<43696, 43696>>, <<43698, 43700>>,
    <<43703, 43704>>, <<43710, 43711>>, <<43713, 43713>>, <<43741, 43741>>,
    <<43756, 43757>>, <<43763, 43764>>, <<43766, 43766>>, <<43867, 43871>>,
    <<43881, 43883>>, <<44005, 44005>>, <<44008, 44008>>, <<44013, 44013>>,
    <<64286, 64286>>, <<64434, 64450>>, <<65024, 65039>>, <<65043, 65043>>,
    <<65056, 65071>>, <<65106, 65106>>, <<65109, 65109>>, <<65279, 65279>>,
    <<65287, 65287>>, <<65294, 65294>>, <<65306, 65306>>, <<65342, 65342>>,
    <<65344, 65344>>, <<65392, 65392>>, <<65438, 65439>>, <<65507, 65507>>,
    <<65529, 65531>>, <<66045, 66045>>, <<66272, 66272>>, <<66422, 66426>>,
    <<67456, 67461>>, <<67463, 67504>>, <<67506, 67514>>, <<68097, 68099>>,
    <<68101, 68102>>, <<68108, 68111>>, <<68152, 68154>>, <<68159, 68159>>,
    <<68325, 68326>>, <<68900, 68903>>, <<69291, 69292>>, <<69446, 69456>>,
    <<69506, 69509>>, <<69633, 69633>>, <<69688, 69702>>, <<69744, 69744>>,
    <<69747, 69748>>, <<69759, 69761>>, <<69811, 69814>>, <<69817, 69818>>,
    <<69821, 69821>>, <<69826, 69826>>, <<69837, 69837>>, <<69888, 69890>>,
    <<69927, 69931>>, <<69933, 69940>>, <<70003, 70003>>, <<70016, 70017>>,
    <<70070, 70078>>, <<70089, 70092>>, <<70095, 70095>>, <<70191, 70193>>,
    <<70196, 70196>>, <<70198, 70199>>, <<70206, 70206>>, <<70367, 70367>>,
    <<70371, 70378>>, <<70400, 70401>>, <<70459, 70460>>, <<70464, 70464>>,
    <<70502, 70508>>, <<70512, 70516>>, <<70712, 70719>>, <<70722, 70724>>,
    <<70726, 70726>>, <<70750, 70750>>, <<70835, 70840>>, <<70842, 70842>>,
    <<70847, 70848>>, <<70850, 70851>>, <<71090, 71093>>, <<71100, 71101>>,
    <<71103, 71104>>, <<71132, 71133>>, <<71219, 71226>>, <<71229, 71229>>,
    <<71231, 71232>>, <<71339, 71339>>, <<71341, 71341>>, <<71344, 71349>>,
    <<71351, 71351>>, <<71453, 71455>>, <<71458, 71461>>, <<71463, 71467>>,
    <<71727, 71735>>, <<71737, 71738>>, <<71995, 71996>>, <<71998, 71998>>,
    <<72003, 72003>>, <<72148, 72151>>, <<72154, 72155>>, <<72160, 72160>>,
    <<72193, 72202>>, <<72243, 72248>>, <<72251, 72254>>, <<72263, 72263>>,
    <<72273, 72278>>, <<72281, 72283>>, <<72330, 72342>>, <<72344, 72345>>,
    <<72752, 72758>>, <<72760, 72765>>, <<72767, 72767>>, <<72850, 72871>>,
    <<72874, 72880>>, <<72882, 72883>>, <<72885, 72886>>, <<73009, 73014>>,
    <<73018, 73018>>, <<73020, 73021>>, <<73023, 73029>>, <<73031, 73031>>,
    <<73104, 73105>>, <<73109, 73109>>, <<73111, 73111>>, <<73459, 73460>>,
    <<78896, 78904>>, <<92912, 92916>>, <<92976, 92982>>, <<92992, 92995>>,
    <<94031, 94031>>, <<94095, 94111>>, <<94176, 94177>>, <<94179, 94180>>,
    <<110576, 110579>>, <<110581, 110587>>, <<110589, 110590>>,
    <<113821, 113822>>, <<113824, 113827>>, <<118528, 118573>>,
    <<118576, 118598>>, <<119143, 119145>>, <<119155, 119170>>,
    <<119173, 119179>>, <<119210, 119213>>, <<119362, 119364>>,
    <<121344, 121398>>, <<121403, 121452>>, <<121461, 121461>>,
    <<121476, 121476>>, <<121499, 121503>>, <<121505, 121519>>,
    <<122880, 122886>>, <<122888, 122904>>, <<122907, 122913>>,
    <<122915, 122916>>, <<122918, 122922>>, <<123184, 123197>>,
    <<123566, 123566>>, <<123628, 123631>>, <<125136, 125142>>,
    <<125252, 125259>>, <<127995, 127999>>, <<917505, 917505>>,
    <<917536, 917631>>, <<917760, 917999>>>>
\* a capital sigma ends a word: the nearest character before it that is not
\* Case_Ignorable is Cased, and the nearest such after it is not
FinalSigma(text, i) ==
    LET InRanges(c, ranges) ==
            \E k \in DOMAIN ranges : ranges[k][1] <= c /\ c <= ranges[k][2]
        before == {j \in 1..(i - 1) :
                      ~InRanges(text[j], CaseIgnorableRanges)}
        after == {j \in (i + 1)..Len(text) :
                     ~InRanges(text[j], CaseIgnorableRanges)}
    IN  /\ before # {}
        /\ InRanges(text[CHOOSE j \in before : \A k \in before : k <= j],
                    CasedRanges)
        /\ \/ after = {}
           \/ ~InRanges(text[CHOOSE j \in after : \A k \in after : j <= k],
                        CasedRanges)
\* the characters of text from the i-th on, lowered: a capital I with dot
\* (304) to i and a combining dot, a capital sigma (931) to a final or a small
\* sigma
RECURSIVE LowerFrom(_, _)
LowerFrom(text, i) ==
    IF i > Len(text) THEN <<>>
    ELSE (IF text[i] = 304 THEN <<105, 775>>
          ELSE IF text[i] = 931
          THEN <<IF FinalSigma(text, i) THEN 962 ELSE 963>>
          ELSE <<LowerChar(text[i])>>) \o LowerFrom(text, i + 1)
\* str.lower()
lower(text) == LowerFrom(text, 1)

\* the digit zero of every decimal digit system int() and float() read
DigitZeros == {
    48, 1632, 1776, 1984, 2406, 2534, 2662, 2790, 2918, 3046, 3174, 3302,
    3430, 3558, 3664, 3792, 3872, 4160, 4240, 6112, 6160, 6470, 6608, 6784,
    6800, 6992, 7088, 7232, 7248, 42528, 43216, 43264, 43472, 43504, 43600,
    44016, 65296, 66720, 68912, 69734, 69872, 69942, 70096, 70384, 70736,
    70864, 71248, 71360, 71472, 71904, 72016, 72784, 73040, 73120, 92768,
    92864, 93008, 120782, 120792, 120802, 120812, 120822, 123200, 123632,
    125264, 130032}
IsDigit(c) ==
    IF c < 128 THEN 48 <= c /\ c <= 57
    ELSE \E z \in DigitZeros : z <= c /\ c <= z + 9
DigitValue(c) ==
    IF c < 128 THEN c - 48
    ELSE c - CHOOSE z \in DigitZeros : z <= c /\ c <= z + 9
\* digits, with single underscores allowed between them
DigitPart(text) ==
    /\ text # <<>>
    /\ IsDigit(text[1]) /\ IsDigit(text[Len(text)])
    /\ \A i \in DOMAIN text : IsDigit(text[i]) \/ text[i] = Mark["_"]
    /\ \A i \in 1..(Len(text) - 1) :
           ~(text[i] = Mark["_"] /\ text[i + 1] = Mark["_"])
\* the number a sequence of digits writes (0 for none)
RECURSIVE NumberValue(_)
NumberValue(ds) ==
    IF ds = <<>> THEN 0
    ELSE 10 * NumberValue(SubSeq(ds, 1, Len(ds) - 1)) + DigitValue(ds[Len(ds)])

\* a numeral without its sign, and whether the sign is "-"
Unsigned(t) ==
    IF t # <<>> /\ t[1] \in {Mark["+"], Mark["-"]} THEN Tail(t) ELSE t
Negative(t) == t # <<>> /\ t[1] = Mark["-"]

\* int(text): [ok |-> TRUE, val] or, for ValueError, [ok |-> FALSE]
int(text) ==
    LET t == Numeral(text)
        body == Unsigned(t)
    IN  IF DigitPart(body)
        THEN [ok |-> TRUE,
              val |-> IF Negative(t)
                      THEN 0 - NumberValue(SelectSeq(body, IsDigit))
                      ELSE NumberValue(SelectSeq(body, IsDigit))]
        ELSE [ok |-> FALSE, val |-> 0]

\* the natural number a sequence of digits writes, of any size
RECURSIVE BigNumber(_)
BigNumber(ds) ==
    IF ds = <<>> THEN <<>>
    ELSE LET prev == BigNumber(SubSeq(ds, 1, Len(ds) - 1))
             last == Limbs(DigitValue(ds[Len(ds)]))
         IN  IF prev = <<>> THEN last ELSE BAdd(BMulSmall(prev, 10), last)

\* a numeral of float(): digits with at most one "." and a digit on one side
\* of it, then an optional exponent
Dots(body) == {i \in DOMAIN body : body[i] = Mark["."]}
ExponentMarks(body) == {i \in DOMAIN body : body[i] \in {Mark["e"], Mark["E"]}}
Before(body, marks) ==
    IF marks = {} THEN body ELSE SubSeq(body, 1, (CHOOSE i \in marks : TRUE) - 1)
After(body, marks) ==
    IF marks = {} THEN <<>>
    ELSE SubSeq(body, (CHOOSE i \in marks : TRUE) + 1, Len(body))
IsPointNumber(body) ==
    LET whole == Before(body, Dots(body))
        part == After(body, Dots(body))
    IN  /\ Cardinality(Dots(body)) <= 1
        /\ IF Dots(body) = {} THEN DigitPart(whole)
           ELSE /\ whole = <<>> \/ DigitPart(whole)
                /\ part = <<>> \/ DigitPart(part)
                /\ whole # <<>> \/ part # <<>>
IsDecimal(body) ==
    /\ Cardinality(ExponentMarks(body)) <= 1
    /\ IsPointNumber(Before(body, ExponentMarks(body)))
    /\ ExponentMarks(body) # {} =>
           DigitPart(Unsigned(After(body, ExponentMarks(body))))
\* the float a numeral writes
DecimalValue(neg, body) ==
    LET mantissa == Before(body, ExponentMarks(body))
        exponent == After(body, ExponentMarks(body))
        whole == Before(mantissa, Dots(mantissa))
        part == After(mantissa, Dots(mantissa))
        power == NumberValue(SelectSeq(Unsigned(exponent), IsDigit))
    IN  Decimal(neg,
                BigNumber(SelectSeq(whole, IsDigit) \o SelectSeq(part, IsDigit)),
                (IF Negative(exponent) THEN 0 - power ELSE power)
                    - Len(SelectSeq(part, IsDigit)))

\* the letters A to Z made small: float() reads 'inf' and 'nan' in either case
RECURSIVE AsciiLower(_)
AsciiLower(text) ==
    IF text = <<>> THEN <<>>
    ELSE <<IF 65 <= text[1] /\ text[1] <= 90 THEN text[1] + 32 ELSE text[1]>>
             \o AsciiLower(Tail(text))

\* the words float() reads beside numerals
Words == [inf |-> Text(<<"i", "n", "f">>),
          infinity |-> Text(<<"i", "n", "f", "i", "n", "i", "t", "y">>),
          nan |-> Text(<<"n", "a", "n">>)]

\* float(text): [ok |-> TRUE, val] or, for ValueError, [ok |-> FALSE]
float(text) ==
    LET t == Numeral(text)
        body == Unsigned(t)
    IN  IF AsciiLower(body) \in {Words.inf, Words.infinity}
        THEN [ok |-> TRUE, val |-> IF Negative(t) THEN NegInf ELSE Inf]
        ELSE IF AsciiLower(body) = Words.nan
        THEN [ok |-> TRUE, val |-> NaN]
        ELSE IF IsDecimal(body)
        THEN [ok |-> TRUE, val |-> DecimalValue(Negative(t), body)]
        ELSE [ok |-> FALSE, val |-> Zero]

(***************************************************************************)
(* load_sample_data                                                        *)
(***************************************************************************)
Pens == Text(<<"P", "e", "n", "s">>)
PaperReams == Text(<<"P", "a", "p", "e", "r", " ", "R", "e", "a", "m", "s">>)
Staplers == Text(<<"S", "t", "a", "p", "l", "e", "r", "s">>)
Folders == Text(<<"F", "o", "l", "d", "e", "r", "s">>)
Markers == Text(<<"M", "a", "r", "k", "e", "r", "s">>)

SampleOffices == <<
    [name |-> Text(<<"O", "f", "f", "i", "c", "e", " ", "1", " ", "-", " ", "N", "e", "w", " ", "Y", "o", "r", "k">>),
     items |-> <<<<Pens, 10>>, <<PaperReams, 5>>, <<Staplers, 2>>>>],
    [name |-> Text(<<"O", "f", "f", "i", "c", "e", " ", "2", " ", "-", " ", "B", "o", "s", "t", "o", "n">>),
     items |-> <<<<Pens, 15>>, <<PaperReams, 3>>, <<Folders, 20>>>>],
    [name |-> Text(<<"O", "f", "f", "i", "c", "e", " ", "3", " ", "-", " ", "C", "h", "i", "c", "a", "g", "o">>),
     items |-> <<<<PaperReams, 7>>, <<Folders, 10>>, <<Markers, 8>>>>],
    [name |-> Text(<<"O", "f", "f", "i", "c", "e", " ", "4", " ", "-", " ", "S", "e", "a", "t", "t", "l", "e">>),
     items |-> <<<<Staplers, 3>>, <<Markers, 12>>, <<Pens, 5>>>>]>>
\* prices in hundredths: 1.50 is 150
SampleStores == <<
    [name |-> Text(<<"O", "f", "f", "i", "c", "e", " ", "D", "e", "p", "o", "t">>),
     items |-> <<<<Pens, 150>>, <<PaperReams, 800>>, <<Staplers, 500>>, <<Folders, 50>>, <<Markers, 200>>>>],
    [name |-> Text(<<"S", "t", "a", "p", "l", "e", "s">>),
     items |-> <<<<Pens, 125>>, <<PaperReams, 850>>, <<Staplers, 450>>, <<Folders, 60>>, <<Markers, 175>>>>],
    [name |-> Text(<<"A", "m", "a", "z", "o", "n">>),
     items |-> <<<<Pens, 100>>, <<PaperReams, 750>>, <<Staplers, 400>>, <<Folders, 45>>, <<Markers, 180>>>>]>>

\* office = Office(name); office.add_item(...) for each item of the sample
RECURSIVE AddItems(_, _, _)
AddItems(office, items, i) ==
    IF i > Len(items) THEN office
    ELSE AddItems(add_item(office, items[i][1], items[i][2]), items, i + 1)
\* store = Store(name); store.set_price(...) for each item of the sample
RECURSIVE SetPrices(_, _, _)
SetPrices(store, items, i) ==
    IF i > Len(items) THEN store
    ELSE SetPrices(set_price(store, items[i][1], Fin(items[i][2])), items, i + 1)
\* smart_list.add_office(office1) ... / smart_list.add_store(store_a) ...
RECURSIVE AppendEach(_, _, _)
AppendEach(list, first, n) ==
    IF n = 0 THEN list ELSE AppendEach(Append(list, first), first + 1, n - 1)

\* the bookkeeping of the sample's add_item and set_price calls
RECURSIVE AccumulateItems(_, _, _)
AccumulateItems(f, items, i) ==
    IF i > Len(items) THEN f
    ELSE AccumulateItems(Accumulate(f, items[i][1], items[i][2]), items, i + 1)
RECURSIVE RecordPrices(_, _, _)
RecordPrices(f, items, i) ==
    IF i > Len(items) THEN f
    ELSE RecordPrices(MapSet(f, items[i][1], Fin(items[i][2])), items, i + 1)

(***************************************************************************)
(* The interactive session (cli.py).  pc is the input() call the session   *)
(* waits at; line is the line input() returned last, msg the status line   *)
(* printed last.  typed counts the Office and Store objects the session    *)
(* has constructed from typed names, loads the calls of load_sample_data.  *)
(***************************************************************************)
\* offices and stores, counted together, one session may type in
MaxTyped == 2
\* how often the sample data may have been loaded when it is loaded
LoadsBefore == {0}

MenuLines == {Text(<<"1">>), Text(<<"2">>), Text(<<"3">>), Text(<<"4">>), Text(<<"5">>), <<9, 49, 160>>, Text(<<"9">>), <<>>}
OfficeNameLines == {Text(<<"H", "Q">>), <<>>, <<32, 133>>}
StoreNameLines == {Text(<<"S", "h", "o", "p">>), Text(<<"A", "m", "a", "z", "o", "n">>), <<>>}
ItemLines == {Text(<<"P", "e", "n", "s">>), <<160, 80, 101, 110, 115>>, <<>>, Text(<<"d", "o", "n", "e">>), <<68, 79, 78, 69, 160>>}
QuantityLines == {Text(<<"1">>), <<160, 1633, 13>>, <<49, 31>>, Text(<<"0">>), Text(<<"-", "1">>), Text(<<"x">>), <<>>, Text(<<"1", ".", "5">>)}
PriceLines == {<<133, 48, 46, 1633, 160>>, Text(<<"i", "n", "f">>), Text(<<"n", "a", "n">>), Text(<<"-", "1">>), Text(<<"-", "i", "n", "f">>), Text(<<"x">>), <<>>}

\* the choices '1' to '5' of main_menu, and the word that ends the items
Choice == [c \in 1..5 |-> <<ord("0") + c>>]
Done == Text(<<"d", "o", "n", "e">>)

InputPcs == {"menu", "office_name", "office_item", "office_qty",
             "store_name", "store_item", "store_price"}

InitCli == InitData /\ pc = "menu"

\* if quantity <= 0
RejectQuantityNegative(quantity) == quantity < 0
RejectQuantity(quantity) == quantity <= 0
\* if price < 0
RejectPrice(price) == FLt(price, Fin(0))

\* main_menu, choice == '1': add_office_interactive(smart_list)
ChooseAddOffice ==
    /\ pc = "menu"
    /\ typed < MaxTyped
    /\ \E l \in MenuLines : strip(l) = Choice[1] /\ line' = l
    /\ pc' = "office_name"
    /\ msg' = "ADD OFFICE"
    /\ ret' = NoRet
    /\ UNCHANGED <<data, cur, curItem>>
    /\ UNCHANGED <<held, loads, typed>>

\* add_office_interactive: office_name = input(...).strip()
OfficeName ==
    /\ pc = "office_name"
    /\ \E l \in OfficeNameLines :
          /\ line' = l
          /\ LET office_name == strip(l)
             IN  IF office_name = <<>>
                 THEN /\ msg' = "Office name cannot be empty."
                      /\ pc' = "menu"
                      /\ UNCHANGED <<data, cur, typed>>
                 ELSE /\ officeObjs' = Append(officeObjs, Office(office_name))
                      /\ typed' = typed + 1
                      /\ added' = Append(added, <<>>)
                      /\ cur' = Len(officeObjs) + 1
                      /\ pc' = "office_item"
                      /\ msg' = "Enter items (type 'done' when finished):"
                      /\ UNCHANGED <<storeObjs, offices, stores, lastSet>>
    /\ UNCHANGED <<ret, curItem>>
    /\ UNCHANGED <<held, loads>>

\* add_office_interactive: item_name = input(...).strip()
OfficeItem ==
    /\ pc = "office_item"
    /\ \E l \in ItemLines :
          /\ line' = l
          /\ LET item_name == strip(l)
             IN  IF lower(item_name) = Done
                 THEN /\ offices' = add_office(offices, cur)
                      /\ msg' = "Office added successfully!"
                      /\ pc' = "menu"
                      /\ cur' = 0
                      /\ curItem' = <<>>
                 ELSE IF item_name = <<>>
                 THEN /\ msg' = "Item name cannot be empty."
                      /\ UNCHANGED <<offices, pc, cur, curItem>>
                 ELSE /\ curItem' = item_name
                      /\ pc' = "office_qty"
                      /\ UNCHANGED <<offices, msg, cur>>
    /\ UNCHANGED <<officeObjs, storeObjs, stores, added, lastSet, ret>>
    /\ UNCHANGED <<held, loads, typed>>

\* add_office_interactive: quantity = int(input(...))
OfficeQuantity ==
    /\ pc = "office_qty"
    /\ \E l \in QuantityLines :
          /\ line' = l
          /\ LET quantity == int(l)
             IN  IF ~quantity.ok
                 THEN /\ msg' = "Invalid quantity. Please enter a number."
                      /\ UNCHANGED <<officeObjs, added>>
                 ELSE IF RejectQuantity(quantity.val)
                 THEN /\ msg' = "Quantity must be positive."
                      /\ UNCHANGED <<officeObjs, added>>
                 ELSE LET new == add_item(officeObjs[cur], curItem, quantity.val)
                      IN  /\ DictGet(new.supplies, curItem) <= MaxQty
                          /\ officeObjs' = [officeObjs EXCEPT ![cur] = new]
                          /\ added' = [added EXCEPT
                                ![cur] = Accumulate(@, curItem, quantity.val)]
                          /\ msg' = "Added"
    /\ pc' = "office_item"
    /\ UNCHANGED <<storeObjs, offices, stores, lastSet, ret, cur, curItem>>
    /\ UNCHANGED <<held, loads, typed>>

\* main_menu, choice == '2': add_store_interactive(smart_list)
ChooseAddStore ==
    /\ pc = "menu"
    /\ typed < MaxTyped
    /\ \E l \in MenuLines : strip(l) = Choice[2] /\ line' = l
    /\ pc' = "store_name"
    /\ msg' = "ADD STORE"
    /\ ret' = NoRet
    /\ UNCHANGED <<data, cur, curItem>>
    /\ UNCHANGED <<held, loads, typed>>

\* add_store_interactive: store_name = input(...).strip()
StoreName ==
    /\ pc = "store_name"
    /\ \E l \in StoreNameLines :
          /\ line' = l
          /\ LET store_name == strip(l)
             IN  IF store_name = <<>>
                 THEN /\ msg' = "Store name cannot be empty."
                      /\ pc' = "menu"
                      /\ UNCHANGED <<data, cur, typed>>
                 ELSE /\ storeObjs' = Append(storeObjs, Store(store_name))
                      /\ typed' = typed + 1
                      /\ lastSet' = Append(lastSet, <<>>)
                      /\ cur' = Len(storeObjs) + 1
                      /\ pc' = "store_item"
                      /\ msg' = "Enter item prices (type 'done' when finished):"
                      /\ UNCHANGED <<officeObjs, offices, stores, added>>
    /\ UNCHANGED <<ret, curItem>>
    /\ UNCHANGED <<held, loads>>

\* add_store_interactive: item_name = input(...).strip()
StoreItem ==
    /\ pc = "store_item"
    /\ \E l \in ItemLines :
          /\ line' = l
          /\ LET item_name == strip(l)
             IN  IF lower(item_name) = Done
                 THEN /\ stores' = add_store(stores, cur)
                      /\ msg' = "Store added successfully!"
                      /\ pc' = "menu"
                      /\ cur' = 0
                      /\ curItem' = <<>>
                 ELSE IF item_name = <<>>
                 THEN /\ msg' = "Item name cannot be empty."
                      /\ UNCHANGED <<stores, pc, cur, curItem>>
                 ELSE /\ curItem' = item_name
                      /\ pc' = "store_price"
                      /\ UNCHANGED <<stores, msg, cur>>
    /\ UNCHANGED <<officeObjs, storeObjs, offices, added, lastSet, ret>>
    /\ UNCHANGED <<held, loads, typed>>

\* add_store_interactive: price = float(input(...))
StorePrice ==
    /\ pc = "store_price"
    /\ \E l \in PriceLines :
          /\ line' = l
          /\ LET price == float(l)
             IN  IF ~price.ok
                 THEN /\ msg' = "Invalid price. Please enter a number."
                      /\ UNCHANGED <<storeObjs, lastSet>>
                 ELSE IF RejectPrice(price.val)
                 THEN /\ msg' = "Price cannot be negative."
                      /\ UNCHANGED <<storeObjs, lastSet>>
                 ELSE /\ storeObjs' = [storeObjs EXCEPT
                            ![cur] = set_price(@, curItem, price.val)]
                      /\ lastSet' = [lastSet EXCEPT
                            ![cur] = MapSet(@, curItem, price.val)]
                      /\ msg' = "Set price"
    /\ pc' = "store_item"
    /\ UNCHANGED <<officeObjs, offices, stores, added, ret, cur, curItem>>
    /\ UNCHANGED <<held, loads, typed>>

\* max(totals) of a non-empty list: the first item no later item exceeds
RECURSIVE MaxFrom(_, _, _)
MaxFrom(totals, i, best) ==
    IF i > Len(totals) THEN best
    ELSE MaxFrom(totals, i + 1, IF FLt(best, totals[i]) THEN totals[i] ELSE best)
max(totals) == MaxFrom(totals, 2, totals[1])

\* [data['total'] for data in comparison.values() if data['total'] != inf]
FiniteTotals(comparison) ==
    LET all == [i \in DOMAIN comparison |-> comparison[i].v.total]
    IN  SelectSeq(all, LAMBDA t : t # Inf)

\* show_results, "if savings > 0": what the savings line shows, or that the
\* division by max_cost raises ZeroDivisionError
SavingsLine(max_cost, savings) ==
    LET quotient == FDiv(savings, max_cost)
    IN  IF ~FLt(Fin(0), savings)
        THEN [raised |-> FALSE, savings |-> <<>>, savings_pct |-> <<>>]
        ELSE IF ~quotient.ok
        THEN [raised |-> TRUE, savings |-> <<savings>>, savings_pct |-> <<>>]
        ELSE [raised |-> FALSE, savings |-> <<savings>>,
              savings_pct |-> <<FMul(quotient.val, 100)>>]
\* show_results, "if len(all_totals) > 1"
Savings(all_totals, total) ==
    IF Len(all_totals) > 1
    THEN LET max_cost == max(all_totals)
         IN  SavingsLine(max_cost, FSub(max_cost, total))
    ELSE [raised |-> FALSE, savings |-> <<>>, savings_pct |-> <<>>]
\* show_results, "if cheapest_store": savings and savings_pct are <<>> when no
\* savings line is printed
BestChoice(merged, comparison, r, s) ==
    [op |-> "show_results",
     shown |-> IF s.raised THEN "ZeroDivisionError" ELSE "Best Choice",
     merged |-> merged, comparison |-> comparison,
     store |-> r.store, total |-> r.total,
     savings |-> s.savings, savings_pct |-> s.savings_pct]
\* show_results from the Price Comparison on, given the merged list, the
\* comparison and the (store, total) of find_cheapest_store
ShowComparison(merged, comparison, r) ==
    IF r.store # NoStore
    THEN BestChoice(merged, comparison, r,
                    Savings(FiniteTotals(comparison), r.total))
    ELSE [op |-> "show_results",
          shown |-> "No store has all required items in stock.",
          merged |-> merged, comparison |-> comparison]

\* show_results: the values it computes and the status line it ends on, or the
\* error it raises; the layout of the printed lines is not modelled
show_results(objs, offs, sobjs, strs) ==
    LET merged == merge_supplies(objs, offs)
    IN  IF merged = EmptyDict
        THEN [op |-> "show_results", shown |-> "No supplies added yet."]
        ELSE IF strs = <<>>
        THEN [op |-> "show_results", shown |-> "No stores added yet.",
              merged |-> merged]
        ELSE ShowComparison(merged,
                            get_price_comparison(objs, offs, sobjs, strs),
                            find_cheapest_store(objs, offs, sobjs, strs))

\* the interpreter exits: smart_list and every Office and Store go with it
ObjectsEnd ==
    /\ officeObjs' = <<>> /\ storeObjs' = <<>>
    /\ offices' = <<>> /\ stores' = <<>>
    /\ added' = <<>> /\ lastSet' = <<>>
    /\ cur' = 0 /\ curItem' = <<>>
    /\ loads' = 0 /\ typed' = 0
ProcessEnds == ObjectsEnd /\ ret' = NoRet

\* main_menu, choice == '3': show_results(smart_list); no handler catches the
\* error it raises, neither main_menu nor __main__
ShowResults ==
    /\ pc = "menu"
    /\ \E l \in MenuLines : strip(l) = Choice[3] /\ line' = l
    /\ ret' = show_results(officeObjs, offices, storeObjs, stores)
    /\ msg' = ret'.shown
    /\ IF ret'.shown = "ZeroDivisionError"
       THEN pc' = "crashed" /\ ObjectsEnd
       ELSE UNCHANGED <<officeObjs, storeObjs, offices, stores, added,
                        lastSet, pc, cur, curItem, loads, typed>>
    /\ UNCHANGED held

\* the four offices and three stores load_sample_data builds, and the
\* bookkeeping of its add_item and set_price calls
SampleOfficeObjs ==
    [i \in DOMAIN SampleOffices |->
        AddItems(Office(SampleOffices[i].name), SampleOffices[i].items, 1)]
SampleAdded ==
    [i \in DOMAIN SampleOffices |->
        AccumulateItems(<<>>, SampleOffices[i].items, 1)]
SampleStoreObjs ==
    [i \in DOMAIN SampleStores |->
        SetPrices(Store(SampleStores[i].name), SampleStores[i].items, 1)]
SampleLastSet ==
    [i \in DOMAIN SampleStores |->
        RecordPrices(<<>>, SampleStores[i].items, 1)]

\* main_menu, choice == '4': load_sample_data(smart_list)
LoadSampleData ==
    /\ pc = "menu"
    /\ loads \in LoadsBefore
    /\ \E l \in MenuLines : strip(l) = Choice[4] /\ line' = l
    /\ officeObjs' = officeObjs \o SampleOfficeObjs
    /\ added' = added \o SampleAdded
    /\ offices' = AppendEach(offices, Len(officeObjs) + 1, Len(SampleOffices))
    /\ storeObjs' = storeObjs \o SampleStoreObjs
    /\ lastSet' = lastSet \o SampleLastSet
    /\ stores' = AppendEach(stores, Len(storeObjs) + 1, Len(SampleStores))
    /\ msg' = "Sample data loaded successfully!"
    /\ ret' = NoRet
    /\ loads' = loads + 1
    /\ UNCHANGED <<pc, cur, curItem, typed>>
    /\ UNCHANGED held

\* main_menu, choice == '5': sys.exit(0)
Exit ==
    /\ pc = "menu"
    /\ \E l \in MenuLines : strip(l) = Choice[5] /\ line' = l
    /\ pc' = "exited"
    /\ msg' = "Thank you for using Smart Shopping List!"
    /\ ProcessEnds
    /\ UNCHANGED held

\* main_menu, else: any other choice
InvalidChoice ==
    /\ pc = "menu"
    /\ \E l \in MenuLines :
          /\ strip(l) \notin {Choice[c] : c \in DOMAIN Choice}
          /\ line' = l
    /\ msg' = "Invalid choice. Please enter 1-5."
    /\ ret' = NoRet
    /\ UNCHANGED <<data, pc, cur, curItem>>
    /\ UNCHANGED <<held, loads, typed>>

\* input() raises KeyboardInterrupt (Ctrl-C at a prompt): caught under
\* __main__, which prints and calls sys.exit(0)
Interrupt ==
    /\ pc \in InputPcs
    /\ pc' = "interrupted"
    /\ msg' = "Exiting... Thank you for using Smart Shopping List!"
    /\ ProcessEnds
    /\ UNCHANGED line
    /\ UNCHANGED held

\* input() raises EOFError (standard input ends at a prompt): no handler
\* catches it, neither the except ValueError of the loops nor __main__
EndOfInput ==
    /\ pc \in InputPcs
    /\ pc' = "crashed"
    /\ msg' = "EOFError"
    /\ ProcessEnds
    /\ UNCHANGED line
    /\ UNCHANGED held

NextCli ==
    \/ ChooseAddOffice
    \/ OfficeName
    \/ OfficeItem
    \/ OfficeQuantity
    \/ ChooseAddStore
    \/ StoreName
    \/ StoreItem
    \/ StorePrice
    \/ ShowResults
    \/ LoadSampleData
    \/ Exit
    \/ InvalidChoice
    \/ Interrupt
    \/ EndOfInput

SpecCli == InitCli /\ [][NextCli]_vars


(***************************************************************************)
(* What the aggregator holds, stated without the loops of the code         *)
(***************************************************************************)
\* the demand mapping of the i-th entry of the offices list
EntrySupplies(i) == officeObjs[offices[i]].supplies
Qty(d, item) == IF DictHas(d, item) THEN DictGet(d, item) ELSE 0
\* the items demanded by some entry of the offices list
DemandItems == UNION {DictKeys(EntrySupplies(i)) : i \in DOMAIN offices}
\* the sum of an item's quantity over the first n entries of the offices list
RECURSIVE SumQty(_, _)
SumQty(item, n) ==
    IF n = 0 THEN 0 ELSE SumQty(item, n - 1) + Qty(EntrySupplies(n), item)
DemandQty(item) == SumQty(item, Len(offices))
\* d is the merged demand, as a mapping
IsMergedDemand(d) ==
    /\ IsDict(d)
    /\ DictKeys(d) = DemandItems
    /\ \A item \in DemandItems : DictGet(d, item) = DemandQty(item)
\* the orders in which the entries of the offices list could have been added
Orders == {p \in [DOMAIN offices -> DOMAIN offices] :
              \A i, j \in DOMAIN offices : p[i] = p[j] => i = j}

(***************************************************************************)
(* C1: merge_supplies() returns the mapping whose keys are the union of    *)
(* the item keys of all entries of the offices list and whose value for    *)
(* an item is the sum of its quantities over all entries, whatever the     *)
(* order of registration; it is empty when no entry demands anything.      *)
(***************************************************************************)
C1_MergeIsSum ==
    ret.op = "merge_supplies" =>
        /\ IsMergedDemand(ret.val)
        /\ \A p \in Orders :
              SameMapping(ret.val,
                  merge_supplies(officeObjs, [i \in DOMAIN offices |-> offices[p[i]]]))
        /\ (\A i \in DOMAIN offices : EntrySupplies(i) = EmptyDict)
              => ret.val = EmptyDict

\* two different offices are registered and the merged quantity of an item
\* is larger than any single office can hold
C1_Witness ==
    /\ ret.op = "merge_supplies"
    /\ Len(offices) = 2 /\ offices[1] # offices[2]
    /\ \E item \in DictKeys(ret.val) :
          /\ DictGet(ret.val, item) > MaxQty
          /\ Qty(EntrySupplies(1), item) > 0
          /\ Qty(EntrySupplies(2), item) > 0

\* reachability checks kept beside C1: the same office registered twice, and
\* a key whose merged quantity is 0
C1_SameOfficeTwice ==
    /\ ret.op = "merge_supplies"
    /\ Len(offices) = 2 /\ offices[1] = offices[2]
    /\ \E item \in DictKeys(ret.val) : DictGet(ret.val, item) = 2 * MaxQty
C1_ZeroKey ==
    /\ ret.op = "merge_supplies"
    /\ \E item \in DictKeys(ret.val) : DictGet(ret.val, item) = 0

(***************************************************************************)
(* What a store offers, stated without the loops of the code               *)
(***************************************************************************)
\* the store has a price for the item, and it is a finite one
Offers(store, item) ==
    item \in DOMAIN store.prices /\ store.prices[item] # Inf
\* the number of hundredths in a finite price that is a whole number of
\* quarters below 2^13: such prices, their products with a quantity and
\* the sums of those are exact in binary64, so a sum of them is the same
\* number in whatever order it is taken
InHundredths(price) ==
    (IF price.neg THEN -25 ELSE 25)
        * (IF price.m = <<>> THEN 0 ELSE price.m[1]) * Pow2(price.e + 2)
\* the sum of price * quantity over a set of items the store offers
RECURSIVE Cost(_, _, _)
Cost(store, demand, items) ==
    IF items = {} THEN 0
    ELSE LET x == CHOOSE x \in items : TRUE
         IN  InHundredths(store.prices[x]) * DictGet(demand, x)
                + Cost(store, demand, items \ {x})
Elements(list) == {list[i] : i \in DOMAIN list}
NoRepeat(list) == \A i, j \in DOMAIN list : list[i] = list[j] => i = j

(***************************************************************************)
(* C3: calculate_store_total(store, demand) splits the demand's items      *)
(* into the priced items and the returned missing list, disjoint and       *)
(* together all of the demand, each missing item listed once; the total    *)
(* is the sum of price * quantity over the priced items alone, and 0.0     *)
(* when no item is priced.                                                 *)
(***************************************************************************)
C3_Partition ==
    ret.op = "calculate_store_total" =>
        LET store == storeObjs[ret.store]
            keys == DictKeys(ret.shopping_list)
            missing == Elements(ret.unavailable)
            priced == {item \in keys : Offers(store, item)}
        IN  /\ missing \cap priced = {}
            /\ missing \cup priced = keys
            /\ NoRepeat(ret.unavailable)
            /\ ret.total = Fin(Cost(store, ret.shopping_list, priced))
            /\ priced = {} => ret.total = Fin(0)

\* a demand of two items, one priced and one missing, with a total that
\* counts a quantity of 2
C3_Witness ==
    /\ ret.op = "calculate_store_total"
    /\ Len(ret.unavailable) = 1
    /\ Len(ret.shopping_list) = 2
    /\ \E item \in DictKeys(ret.shopping_list) :
          /\ Offers(storeObjs[ret.store], item)
          /\ DictGet(ret.shopping_list, item) = 2
          /\ ret.total = Fin(2 * InHundredths(storeObjs[ret.store].prices[item]))

(***************************************************************************)
(* C7: the missing list of calculate_store_total is exactly the set of     *)
(* demand items that have no entry in the store's price mapping.           *)
(***************************************************************************)
C7_MissingIffAbsent ==
    ret.op = "calculate_store_total" =>
        Elements(ret.unavailable) =
            {item \in DictKeys(ret.shopping_list) :
                item \notin DOMAIN storeObjs[ret.store].prices}

\* what does hold: an item is missing iff its lookup gives the sentinel,
\* that is, iff it has no entry or its entry is +infinity
C7_MissingIffSentinel ==
    ret.op = "calculate_store_total" =>
        Elements(ret.unavailable) =
            {item \in DictKeys(ret.shopping_list) :
                ~Offers(storeObjs[ret.store], item)}

(***************************************************************************)
(* C8: get_price(item) returns the price of the most recent                *)
(* set_price(item, p) on that store, and +infinity if set_price was never  *)
(* called for the item; it returns a float for every item.                 *)
(***************************************************************************)
C8_LastWriteWins ==
    ret.op = "get_price" =>
        /\ ret.val.kind \in {"fin", "inf"}
        /\ IF ret.item \in DOMAIN lastSet[ret.store]
           THEN ret.val = lastSet[ret.store][ret.item]
           ELSE ret.val = Inf

\* a store with one item set and one never set, asked for the item set
C8_Witness ==
    /\ ret.op = "get_price"
    /\ DOMAIN lastSet[ret.store] = {ret.item}
    /\ ret.val = Fin(200)

\* reachability check kept beside C8: the lookup of an item never set
C8_NeverSet ==
    /\ ret.op = "get_price"
    /\ ret.item \notin DOMAIN lastSet[ret.store]
    /\ DOMAIN lastSet[ret.store] # {}
    /\ ret.val = Inf

(***************************************************************************)
(* The registered stores against the merged demand, stated without the     *)
(* loops of the code                                                       *)
(***************************************************************************)
\* the store has a finite price for every demanded item
Feasible(s) == \A item \in DemandItems : Offers(storeObjs[s], item)
\* the sum of price * merged quantity over a set of demanded items
RECURSIVE DemandCost(_, _)
DemandCost(s, items) ==
    IF items = {} THEN 0
    ELSE LET x == CHOOSE x \in items : TRUE
         IN  InHundredths(storeObjs[s].prices[x]) * DemandQty(x)
                + DemandCost(s, items \ {x})
TotalOf(s) == DemandCost(s, DemandItems)
PartialTotalOf(s) ==
    DemandCost(s, {item \in DemandItems : Offers(storeObjs[s], item)})
\* the positions of the stores list that hold a feasible store of least total
Cheapest ==
    {i \in DOMAIN stores :
        /\ Feasible(stores[i])
        /\ \A j \in DOMAIN stores :
              Feasible(stores[j]) => TotalOf(stores[i]) <= TotalOf(stores[j])}
First(positions) == CHOOSE i \in positions : \A j \in positions : i <= j

(***************************************************************************)
(* C2: with a non-empty merged demand and a registered store that prices   *)
(* every demanded item, find_cheapest_store() returns a registered store   *)
(* S with no missing item and its total T over the whole merged demand;    *)
(* T is at most the total of every feasible registered store, and S is     *)
(* the earliest store of the list with that total.  A store with a         *)
(* missing item is never returned.                                         *)
(***************************************************************************)
C2_CheapestFeasible ==
    ret.op = "find_cheapest_store" =>
        /\ ret.store # NoStore =>
              ret.store \in Elements(stores) /\ Feasible(ret.store)
        /\ (DemandItems # {} /\ \E i \in DOMAIN stores : Feasible(stores[i])) =>
              /\ ret.store # NoStore
              /\ ret.total = Fin(TotalOf(ret.store))
              /\ \A i \in DOMAIN stores :
                    Feasible(stores[i]) => TotalOf(ret.store) <= TotalOf(stores[i])
              /\ ret.store = stores[First(Cheapest)]
              /\ IsMergedDemand(ret.merged)

\* the first store of the list misses an item and its partial total is
\* lower than the total of the second, which is returned
C2_Witness ==
    /\ ret.op = "find_cheapest_store"
    /\ Len(stores) = 2
    /\ ~Feasible(stores[1])
    /\ ret.store = stores[2]
    /\ PartialTotalOf(stores[1]) > 0
    /\ Fin(PartialTotalOf(stores[1])) # ret.total
    /\ FLt(Fin(PartialTotalOf(stores[1])), ret.total)

\* reachability check kept beside C2: two different feasible stores with the
\* same total, of which the first is returned
C2_Tie ==
    /\ ret.op = "find_cheapest_store"
    /\ Len(stores) = 2 /\ stores[1] # stores[2]
    /\ Feasible(stores[1]) /\ Feasible(stores[2])
    /\ TotalOf(stores[1]) = TotalOf(stores[2])
    /\ storeObjs[stores[1]].prices # storeObjs[stores[2]].prices
    /\ ret.store = stores[1]

(***************************************************************************)
(* C4: find_cheapest_store() returns (None, 0.0, {}) when the merged       *)
(* demand is empty, whatever stores are registered, and                    *)
(* (None, 0.0, merged) when the merged demand is not empty and no store    *)
(* is registered.                                                          *)
(***************************************************************************)
C4_EmptyCases ==
    ret.op = "find_cheapest_store" =>
        /\ DemandItems = {} =>
              /\ ret.store = NoStore
              /\ ret.total = Fin(0)
              /\ ret.merged = EmptyDict
        /\ (DemandItems # {} /\ stores = <<>>) =>
              /\ ret.store = NoStore
              /\ ret.total = Fin(0)
              /\ IsMergedDemand(ret.merged)
              /\ ret.merged = merge_supplies(officeObjs, offices)

\* no demand (an office with nothing in it is registered) and two stores
\* registered, one of them with prices
C4_Witness ==
    /\ ret.op = "find_cheapest_store"
    /\ offices # <<>>
    /\ DemandItems = {}
    /\ Len(stores) = 2
    /\ \E i \in DOMAIN stores : DOMAIN storeObjs[stores[i]].prices # {}

\* reachability check kept beside C4: demand, and no store registered
C4_NoStores ==
    /\ ret.op = "find_cheapest_store"
    /\ Cardinality(DemandItems) = 2
    /\ stores = <<>>
    /\ storeObjs # <<>>

(***************************************************************************)
(* C5: with a non-empty merged demand, a store registered and every        *)
(* registered store missing a demanded item, find_cheapest_store()         *)
(* returns (None, +infinity, merged).                                      *)
(***************************************************************************)
C5_NoFeasibleStore ==
    (/\ ret.op = "find_cheapest_store"
     /\ DemandItems # {}
     /\ stores # <<>>
     /\ \A i \in DOMAIN stores : ~Feasible(stores[i])) =>
              /\ ret.store = NoStore
              /\ ret.total = Inf
              /\ IsMergedDemand(ret.merged)
              /\ ret.merged = merge_supplies(officeObjs, offices)

\* two registered stores, each with a price for one demanded item and none
\* for the other
C5_Witness ==
    /\ ret.op = "find_cheapest_store"
    /\ Cardinality(DemandItems) = 2
    /\ Len(stores) = 2 /\ stores[1] # stores[2]
    /\ \A i \in DOMAIN stores :
          /\ ~Feasible(stores[i])
          /\ PartialTotalOf(stores[i]) > 0
          /\ \E item \in DemandItems : item \notin DOMAIN storeObjs[stores[i]].prices

(***************************************************************************)
(* C6: get_price_comparison() has one entry per name of a registered       *)
(* store; the entry is the evaluation of the last registered store of      *)
(* that name against the merged demand: total +infinity and the missing    *)
(* list when it misses an item, else its total and an empty list.          *)
(***************************************************************************)
NamesRegistered == {storeObjs[stores[i]].name : i \in DOMAIN stores}
LastNamed(name) ==
    CHOOSE i \in DOMAIN stores :
        /\ storeObjs[stores[i]].name = name
        /\ \A j \in DOMAIN stores : storeObjs[stores[j]].name = name => j <= i

C6_ComparisonByName ==
    ret.op = "get_price_comparison" =>
        /\ IsDict(ret.val)
        /\ DictKeys(ret.val) = NamesRegistered
        /\ \A name \in NamesRegistered :
              LET s == stores[LastNamed(name)]
                  entry == DictGet(ret.val, name)
                  missing == {item \in DemandItems : ~Offers(storeObjs[s], item)}
              IN  /\ Elements(entry.unavailable_items) = missing
                  /\ NoRepeat(entry.unavailable_items)
                  /\ entry.unavailable_items =
                        calculate_store_total(storeObjs[s],
                            merge_supplies(officeObjs, offices)).unavailable
                  /\ entry.total = IF missing # {} THEN Inf ELSE Fin(TotalOf(s))

\* two registered stores of one name: the first prices the whole demand, the
\* second misses an item, and the one entry is the second's
C6_Witness ==
    /\ ret.op = "get_price_comparison"
    /\ Len(stores) = 2 /\ stores[1] # stores[2]
    /\ Cardinality(NamesRegistered) = 1
    /\ DemandItems # {}
    /\ Feasible(stores[1]) /\ ~Feasible(stores[2])
    /\ Len(ret.val) = 1
    /\ ret.val[1].v.total = Inf

\* reachability check kept beside C6: two names, two entries, one with a
\* finite total
C6_TwoNames ==
    /\ ret.op = "get_price_comparison"
    /\ Cardinality(NamesRegistered) = 2
    /\ Len(ret.val) = 2
    /\ DemandItems # {}
    /\ \E i \in DOMAIN ret.val : IsFinite(ret.val[i].v.total) /\ FLt(Zero, ret.val[i].v.total)

(***************************************************************************)
(* C9: the quantity an office stores for an item is the sum of the         *)
(* quantities of the add_item calls made for it; in a session whose items  *)
(* come through add_office_interactive (and load_sample_data), every       *)
(* stored quantity and every merged-demand quantity is at least 1.         *)
(***************************************************************************)
C9_StoredIsSumAtLeastOne ==
    /\ \A o \in DOMAIN officeObjs :
          LET supplies == officeObjs[o].supplies
          IN  /\ IsDict(supplies)
              /\ DictKeys(supplies) = DOMAIN added[o]
              /\ \A item \in DOMAIN added[o] :
                    /\ DictGet(supplies, item) = added[o][item]
                    /\ DictGet(supplies, item) >= 1
    /\ LET merged == merge_supplies(officeObjs, offices)
       IN  /\ IsMergedDemand(merged)
           /\ \A i \in DOMAIN merged : merged[i].v >= 1
    /\ (ret.op = "show_results" /\ "merged" \in DOMAIN ret)
          => \A i \in DOMAIN ret.merged : ret.merged[i].v >= 1

\* a typed office holds 2 Pens, which only two accepted entries of 1 can
\* make, it is registered beside the sample offices, and the merged demand
\* shown for Pens is 10 + 15 + 5 + 2
C9_Witness ==
    /\ ret.op = "show_results" /\ "merged" \in DOMAIN ret
    /\ \E i \in DOMAIN offices :
          /\ officeObjs[offices[i]].name = Text(<<"H", "Q">>)
          /\ Qty(EntrySupplies(i), Pens) = 2
    /\ loads = 1
    /\ Qty(ret.merged, Pens) = 32

(***************************************************************************)
(* C10: a malformed or out-of-range quantity or price entry changes        *)
(* nothing and is followed by the item prompt; 'done' registers the office *)
(* or store being entered; the session ends only on choice 5 or on a       *)
(* keyboard interrupt.                                                     *)
(***************************************************************************)
\* the entries the claim calls malformed or out of range, and 'done'
BadQuantityLines == {Text(<<"0">>), Text(<<"-", "1">>), Text(<<"x">>), <<>>, Text(<<"1", ".", "5">>), <<49, 31>>}
BadPriceLines == {Text(<<"-", "1">>), Text(<<"-", "i", "n", "f">>), Text(<<"x">>), <<>>}
DoneLines == {Done, <<68, 79, 78, 69, 160>>}

C10_Rejected ==
    /\ (pc = "office_qty" /\ line' \in BadQuantityLines)
          => /\ data' = data /\ cur' = cur
             /\ pc' = "office_item"
    /\ (pc = "store_price" /\ line' \in BadPriceLines)
          => /\ data' = data /\ cur' = cur
             /\ pc' = "store_item"
C10_Done ==
    /\ (pc = "office_item" /\ line' \in DoneLines)
          => /\ offices' = Append(offices, cur)
             /\ pc' = "menu"
             /\ UNCHANGED <<officeObjs, storeObjs, stores>>
    /\ (pc = "store_item" /\ line' \in DoneLines)
          => /\ stores' = Append(stores, cur)
             /\ pc' = "menu"
             /\ UNCHANGED <<officeObjs, storeObjs, offices>>
C10_Ends ==
    (pc \in InputPcs /\ pc' \notin InputPcs)
        => \/ pc = "menu" /\ line' = Choice[5] /\ pc' = "exited"
           \/ pc' = "interrupted"

C10_RecoverAndContinue == [][C10_Rejected /\ C10_Done /\ C10_Ends]_vars

\* checks kept beside C10: what holds of the rejected entries and of 'done'
\* alone, and states in which a rejected entry has been followed by an
\* accepted one and by 'done'
C10_RejectedEntryKeepsState == [][C10_Rejected /\ C10_Done]_vars
C10_OfficeAfterRejects ==
    /\ pc = "menu" /\ msg = "Office added successfully!"
    /\ Len(offices) = 1
    /\ Qty(EntrySupplies(1), Pens) = 1
C10_Crashed == pc = "crashed" /\ line \in ItemLines \ {<<>>}

(***************************************************************************)
(* C11: get_supplies, get_price, merge_supplies, calculate_store_total,    *)
(* find_cheapest_store and get_price_comparison leave the offices and      *)
(* stores lists, every office's demand mapping and every store's price     *)
(* mapping as they were (a lookup of an unset item inserts no entry), and  *)
(* a mapping returned earlier by get_supplies or merge_supplies reads the  *)
(* same after later add_item calls.                                        *)
(***************************************************************************)
QueryOps == {"get_supplies", "get_price", "merge_supplies",
             "calculate_store_total", "find_cheapest_store",
             "get_price_comparison"}
\* a step that ends with the result of a query is the query
C11_Frame ==
    ret'.op \in QueryOps =>
        /\ offices' = offices /\ stores' = stores
        /\ DOMAIN officeObjs' = DOMAIN officeObjs
        /\ DOMAIN storeObjs' = DOMAIN storeObjs
        /\ \A o \in DOMAIN officeObjs :
              officeObjs'[o].supplies = officeObjs[o].supplies
        /\ \A s \in DOMAIN storeObjs :
              /\ DOMAIN storeObjs'[s].prices = DOMAIN storeObjs[s].prices
              /\ storeObjs'[s].prices = storeObjs[s].prices
\* the mapping held reads as it did when it was returned
C11_HeldAsReturned ==
    held.op # "none" => Deref(officeObjs, held.obj) = held.seen

C11_QueriesChangeNothing == [][C11_Frame /\ C11_HeldAsReturned']_vars

\* the caller holds a mapping get_supplies returned, the office has had an
\* add_item since, and the last call looked up an item the store never priced
C11_Witness ==
    /\ held.op = "get_supplies"
    /\ held.seen # EmptyDict
    /\ officeObjs[held.office].supplies # held.seen
    /\ ret.op = "get_price"
    /\ ret.val = Inf
    /\ ret.item \notin DOMAIN storeObjs[ret.store].prices
    /\ storeObjs[ret.store].prices # NoPrices

\* reachability checks kept beside C11: a merged mapping held while the
\* demand has grown, and each of the other queries made while a mapping is held
C11_MergedHeld ==
    /\ held.op = "merge_supplies"
    /\ held.seen # EmptyDict
    /\ ~SameMapping(held.seen, merge_supplies(officeObjs, offices))
    /\ ret.op = "find_cheapest_store"
C11_ComparisonWhileHeld ==
    /\ held.op = "get_supplies"
    /\ ret.op = "get_price_comparison" /\ ret.val # EmptyDict
C11_TotalWhileHeld ==
    /\ held.op = "merge_supplies"
    /\ ret.op = "calculate_store_total" /\ ret.unavailable # <<>>

(***************************************************************************)
(* C12: with a non-empty merged demand, find_cheapest_store() and          *)
(* get_price_comparison() agree: when a store S with total T is returned,  *)
(* the comparison entry under S.name has total T and no comparison total   *)
(* is below T; when None is returned with stores registered, every         *)
(* comparison total is +infinity.                                          *)
(***************************************************************************)
\* the two results for the state at hand: the one just returned, and the
\* other as the same state gives it
C12_Called ==
    /\ ret.op \in {"find_cheapest_store", "get_price_comparison"}
    /\ DemandItems # {}
C12_Found ==
    IF ret.op = "find_cheapest_store" THEN [store |-> ret.store, total |-> ret.total]
    ELSE LET r == find_cheapest_store(officeObjs, offices, storeObjs, stores)
         IN  [store |-> r.store, total |-> r.total]
C12_Comparison ==
    IF ret.op = "get_price_comparison" THEN ret.val
    ELSE get_price_comparison(officeObjs, offices, storeObjs, stores)
C12_NoTotalBelow ==
    \A i \in DOMAIN C12_Comparison :
        ~FLt(C12_Comparison[i].v.total, C12_Found.total)
C12_NoneMeansAllInf ==
    (C12_Found.store = NoStore /\ stores # <<>>)
        => \A i \in DOMAIN C12_Comparison : C12_Comparison[i].v.total = Inf

\* the claim as stated
C12_AgreeUnderName ==
    C12_Called =>
        /\ C12_Found.store # NoStore =>
              /\ DictHas(C12_Comparison, storeObjs[C12_Found.store].name)
              /\ DictGet(C12_Comparison, storeObjs[C12_Found.store].name).total
                    = C12_Found.total
              /\ C12_NoTotalBelow
        /\ C12_NoneMeansAllInf

\* checks kept beside C12.  What holds of every state: the entry under
\* S.name has total T when S is the store registered last under that name
\* (so whenever the registered names are distinct); otherwise the entry is
\* that later store's and is not below T
C12_AgreeWithLastOfName ==
    C12_Called =>
        /\ C12_Found.store # NoStore =>
              LET name == storeObjs[C12_Found.store].name
              IN  /\ DictHas(C12_Comparison, name)
                  /\ stores[LastNamed(name)] = C12_Found.store
                        => DictGet(C12_Comparison, name).total = C12_Found.total
                  /\ C12_NoTotalBelow
        /\ C12_NoneMeansAllInf

\* two stores of different names price the whole demand at different
\* totals, and the cheaper one is returned
C12_Witness ==
    /\ ret.op = "find_cheapest_store"
    /\ DemandItems # {}
    /\ Len(stores) = 2
    /\ Cardinality(NamesRegistered) = 2
    /\ Feasible(stores[1]) /\ Feasible(stores[2])
    /\ TotalOf(stores[2]) < TotalOf(stores[1])
    /\ ret.store = stores[2]
    /\ Len(C12_Comparison) = 2
    /\ DictGet(C12_Comparison, storeObjs[ret.store].name).total = ret.total

\* the store returned shares its name
\* with a later, dearer store, whose total the entry holds; and no store is
\* feasible, with two entries
C12_LaterOfName ==
    /\ ret.op = "find_cheapest_store" /\ ret.store # NoStore
    /\ Len(C12_Comparison) = 1
    /\ IsFinite(C12_Comparison[1].v.total)
    /\ FLt(ret.total, C12_Comparison[1].v.total)
C12_NoneFound ==
    /\ ret.op = "get_price_comparison" /\ Len(ret.val) = 2
    /\ DemandItems # {}
    /\ C12_Found.store = NoStore
\* in a session (SpecCli): show_results names as best choice a store whose
\* name the comparison lists with missing items
C12_BestChoiceListedMissing ==
    /\ ret.op = "show_results" /\ "store" \in DOMAIN ret
    /\ DictGet(ret.comparison, storeObjs[ret.store].name).total = Inf
\* in a session (SpecCli): no store is found, and the comparison lists a
\* store with no missing item and a total that is not +infinity, the price
\* typed for it being 'nan'
C12_NoneFoundTotalNaN ==
    /\ ret.op = "show_results"
    /\ ret.shown = "No store has all required items in stock."
    /\ \E i \in DOMAIN ret.comparison :
          /\ IsNaN(ret.comparison[i].v.total)
          /\ ret.comparison[i].v.unavailable_items = <<>>

====
